---- MODULE Spec2Model ----
(***************************************************************************)
(* Platform constraint registry (src/lib/social-platform-specs.ts) and     *)
(* content validators (src/unnamed/part_001, imported by the routes as     *)
(* '@/lib/social-validators') of social-media-genius.                      *)
(*                                                                         *)
(* Registry and validators are synchronous pure functions.  A behaviour of *)
(* Spec is one call: Init draws the operation and its arguments, and the   *)
(* action of                                                               *)
(* that operation evaluates it and stores the outcome in `result`.  A      *)
(* behaviour of SharedSpec is any interleaving of calls made by several    *)
(* request contexts against the one process-wide table PLATFORM_SPECS.     *)
(*                                                                         *)
(* The route handlers (src/unnamed/part_005, part_006) and the media       *)
(* services (src/lib/services/imagen-service.ts, src/unnamed/part_000) are *)
(* further operations of Spec.  A handler that awaits an external model    *)
(* takes two steps: up to the call, which is logged in `invoked`, and from *)
(* the model's `reply` on.                                                 *)
(*                                                                         *)
(* Representation of JavaScript values:                                    *)
(*   - a string that the code inspects character by character (platform,   *)
(*     hashtag, media format) is the sequence of its characters;           *)
(*   - post content, whose only use is `.length` and which must reach      *)
(*     63,207 characters, is a sequence of runs [ch, n] (ch repeated n     *)
(*     times, as "A".repeat(300) in src/scripts/test-setup.ts:110);        *)
(*   - display names and aspect-ratio labels, which are only interpolated  *)
(*     into messages, are TLA+ strings (ImagenService, which trims an      *)
(*     aspect ratio, holds the characters of the label);                   *)
(*   - a message built by a template literal is the record of the template *)
(*     (kind) and of the values interpolated into it;                      *)
(*   - an object is a record, an absent optional property an absent field. *)
(***************************************************************************)
EXTENDS Integers, Sequences, FiniteSets, TLC

VARIABLES pc, op, platform, content, hashtags, width, height, fileSizeMB,
          durationSeconds, format, result,
          PLATFORM_SPECS,   \* the object the module-level const is bound to
          requests,         \* SharedSpec: the call of each request context
          request,          \* the JSON body or the options object of a call
          invoked,          \* the collaborators called so far, in order
          reply             \* what the external model answered

vars == <<pc, op, platform, content, hashtags, width, height, fileSizeMB,
          durationSeconds, format, result, PLATFORM_SPECS, requests,
          request, invoked, reply>>

(***************************************************************************)
(* Strings                                                                 *)
(***************************************************************************)
UpperLetters == <<"A", "B", "C", "D", "E", "F", "G", "H", "I", "J", "K", "L", "M", "N", "O", "P", "Q", "R", "S", "T", "U", "V", "W", "X", "Y", "Z">>

LowerLetters == <<"a", "b", "c", "d", "e", "f", "g", "h", "i", "j", "k", "l", "m", "n", "o", "p", "q", "r", "s", "t", "u", "v", "w", "x", "y", "z">>

LetterIndex(letters, c) == CHOOSE i \in 1..Len(letters) : letters[i] = c

IsLetterOf(letters, c) == \E i \in 1..Len(letters) : letters[i] = c

\* String.prototype.toLowerCase on the characters the model draws
ToLowerCase(s) ==
  [i \in 1..Len(s) |->
     IF IsLetterOf(UpperLetters, s[i])
       THEN LowerLetters[LetterIndex(UpperLetters, s[i])]
       ELSE s[i]]

\* String.prototype.toUpperCase on the characters the model draws
ToUpperCase(s) ==
  [i \in 1..Len(s) |->
     IF IsLetterOf(LowerLetters, s[i])
       THEN UpperLetters[LetterIndex(LowerLetters, s[i])]
       ELSE s[i]]

\* String.prototype.indexOf, 1-based; 0 when pat does not occur in s
IndexOf(s, pat) ==
  LET hits == {i \in 1..(Len(s) - Len(pat) + 1) :
                 SubSeq(s, i, i + Len(pat) - 1) = pat}
  IN IF hits = {} THEN 0 ELSE CHOOSE i \in hits : \A j \in hits : i <= j

\* String.prototype.replace with a string pattern: the first occurrence only
ReplaceFirst(s, pat, rep) ==
  LET i == IndexOf(s, pat)
  IN IF i = 0 THEN s
     ELSE SubSeq(s, 1, i - 1) \o rep \o SubSeq(s, i + Len(pat), Len(s))

\* String.prototype.includes for a one-character needle
Includes(s, c) == \E i \in 1..Len(s) : s[i] = c

\* n copies of the character c
Repeat(c, n) == [i \in 1..n |-> c]

\* content strings: runs of a repeated character
Run(c, n) == [ch |-> c, n |-> n]

RECURSIVE RunsLength(_)
\* String.prototype.length of a content string
RunsLength(runs) ==
  IF runs = <<>> THEN 0 ELSE Head(runs).n + RunsLength(Tail(runs))

(***************************************************************************)
(* Platform identifiers and media format tokens                            *)
(***************************************************************************)
instagram == <<"i", "n", "s", "t", "a", "g", "r", "a", "m">>

twitter == <<"t", "w", "i", "t", "t", "e", "r">>

facebook == <<"f", "a", "c", "e", "b", "o", "o", "k">>

tiktok == <<"t", "i", "k", "t", "o", "k">>

linkedin == <<"l", "i", "n", "k", "e", "d", "i", "n">>

JPG == <<"J", "P", "G">>

PNG == <<"P", "N", "G">>

GIF == <<"G", "I", "F">>

MP4 == <<"M", "P", "4">>

MOV == <<"M", "O", "V">>

JPEG == <<"J", "P", "E", "G">>

\* the property names every object literal inherits from Object.prototype
ObjectPrototypeKeys ==
  { <<"c", "o", "n", "s", "t", "r", "u", "c", "t", "o", "r">>,
    <<"_", "_", "p", "r", "o", "t", "o", "_", "_">>,
    <<"t", "o", "S", "t", "r", "i", "n", "g">>,
    <<"v", "a", "l", "u", "e", "O", "f">>,
    <<"h", "a", "s", "O", "w", "n", "P", "r", "o", "p", "e", "r", "t", "y">>,
    <<"i", "s", "P", "r", "o", "t", "o", "t", "y", "p", "e", "O", "f">>,
    <<"p", "r", "o", "p", "e", "r", "t", "y", "I", "s", "E", "n", "u", "m", "e", "r", "a", "b", "l", "e">>,
    <<"t", "o", "L", "o", "c", "a", "l", "e", "S", "t", "r", "i", "n", "g">>,
    <<"_", "_", "d", "e", "f", "i", "n", "e", "G", "e", "t", "t", "e", "r", "_", "_">>,
    <<"_", "_", "d", "e", "f", "i", "n", "e", "S", "e", "t", "t", "e", "r", "_", "_">>,
    <<"_", "_", "l", "o", "o", "k", "u", "p", "G", "e", "t", "t", "e", "r", "_", "_">>,
    <<"_", "_", "l", "o", "o", "k", "u", "p", "S", "e", "t", "t", "e", "r", "_", "_">> }

(***************************************************************************)
(* JavaScript values and property lookup                                   *)
(***************************************************************************)
Undefined == [type |-> "undefined"]

Null == [type |-> "null"]

\* a value inherited from Object.prototype (the Object function for
\* "constructor", Object.prototype itself for "__proto__"): a truthy object
\* that has none of the properties of a PlatformSpec
Inherited(key) == [type |-> "inherited", key |-> key]

\* !v
IsFalsy(v) == v.type \in {"undefined", "null"}

\* reading v.text, v.hashtags, v.images or v.videos gives undefined, so that
\* reading a property of it throws a TypeError
LacksSpecProperties(v) == v.type # "spec"

\* an outcome of a call
Return(v) == [status |-> "returned", value |-> v]

Throw(e) == [status |-> "threw", error |-> e]

Pending == [status |-> "pending"]

(***************************************************************************)
(* Platform Specification Registry                                         *)
(***************************************************************************)
\* faulty variant of Dim: the width is lost
Dim_ZeroWidth(name, w, h, ratio) ==
  [name |-> name, width |-> 0, height |-> h, aspectRatio |-> ratio]

Dim(name, w, h, ratio) ==
  [name |-> name, width |-> w, height |-> h, aspectRatio |-> ratio]

\* the object literal PLATFORM_SPECS is initialised with: its own properties
\* in declaration order
DeclaredPlatformSpecs ==
  << [key |-> instagram,
      value |->
        [type |-> "spec", name |-> "Instagram",
         text |-> [maxChars |-> 2200, sweetSpot |-> 125],
         images |-> [formats |-> <<JPG, PNG>>, maxSizeMB |-> 15,
                     dimensions |-> << Dim("Square", 1080, 1080, "1:1"),
                                       Dim("Portrait", 1080, 1350, "4:5"),
                                       Dim("Story/Reel", 1080, 1920, "9:16") >>],
         videos |-> [formats |-> <<MP4, MOV>>, maxSizeMB |-> 15,
                     maxDurationSeconds |-> 900,
                     dimensions |-> << Dim("Story", 1080, 1920, "9:16"),
                                       Dim("Reel", 1080, 1920, "9:16") >>],
         hashtags |-> [max |-> 5, recommended |-> 3]]],
     [key |-> twitter,
      value |->
        [type |-> "spec", name |-> "X (Twitter)",
         text |-> [maxChars |-> 280],
         images |-> [formats |-> <<JPG, PNG, GIF>>, maxSizeMB |-> 5,
                     dimensions |-> << Dim("Standard", 1200, 675, "16:9") >>],
         videos |-> [formats |-> <<MP4, MOV>>, maxSizeMB |-> 512,
                     maxDurationSeconds |-> 140,
                     dimensions |-> << Dim("Landscape", 1280, 720, "16:9"),
                                       Dim("Portrait", 720, 1280, "9:16") >>],
         hashtags |-> [max |-> 999, recommended |-> 2]]],
     [key |-> facebook,
      value |->
        [type |-> "spec", name |-> "Facebook",
         text |-> [maxChars |-> 63206, sweetSpot |-> 80],
         images |-> [formats |-> <<JPG, PNG>>, maxSizeMB |-> 30,
                     dimensions |-> << Dim("Standard", 1200, 630, "1.91:1") >>],
         videos |-> [formats |-> <<MP4>>, maxSizeMB |-> 4000,
                     maxDurationSeconds |-> 14460,
                     dimensions |-> << Dim("Landscape", 1280, 720, "16:9"),
                                       Dim("Portrait", 1080, 1920, "9:16") >>],
         hashtags |-> [max |-> 999, recommended |-> 2],
         openGraph |-> [required |-> TRUE, imageSize |-> "1200x630"]]],
     [key |-> tiktok,
      value |->
        [type |-> "spec", name |-> "TikTok",
         text |-> [maxChars |-> 4000],
         images |-> [formats |-> <<JPG, PNG>>, maxSizeMB |-> 50,
                     dimensions |-> << Dim("Story Carousel", 1080, 1920, "9:16") >>],
         videos |-> [formats |-> <<MP4, MOV>>, maxSizeMB |-> 50,
                     maxDurationSeconds |-> 3600,
                     dimensions |-> << Dim("Standard", 1080, 1920, "9:16") >>],
         hashtags |-> [max |-> 30, recommended |-> 3]]],
     [key |-> linkedin,
      value |->
        [type |-> "spec", name |-> "LinkedIn",
         text |-> [maxChars |-> 3000, sweetSpot |-> 1500],
         images |-> [formats |-> <<JPG, PNG>>, maxSizeMB |-> 10,
                     dimensions |-> << Dim("Standard", 1200, 627, "1.91:1"),
                                       Dim("Story", 1080, 1920, "9:16") >>],
         videos |-> [formats |-> <<MP4, MOV>>, maxSizeMB |-> 200,
                     maxDurationSeconds |-> 600,
                     dimensions |-> << Dim("Landscape", 1280, 720, "16:9") >>],
         hashtags |-> [max |-> 999, recommended |-> 5]]] >>

\* Object.keys(obj): the own enumerable property names, in declaration order
\* faulty variant of ObjectKeys: the keys in reverse order of declaration
ObjectKeys_Reversed(obj) == [i \in 1..Len(obj) |-> obj[Len(obj) + 1 - i].key]

ObjectKeys(obj) == [i \in 1..Len(obj) |-> obj[i].key]

\* obj.hasOwnProperty(key)
HasOwn(obj, key) == \E i \in 1..Len(obj) : obj[i].key = key

\* key in obj: own properties and those of the prototype chain
InObject(obj, key) == HasOwn(obj, key) \/ key \in ObjectPrototypeKeys

\* obj[key]: the own property, else the inherited one, else undefined
Get(obj, key) ==
  IF HasOwn(obj, key)
    THEN obj[CHOOSE i \in 1..Len(obj) : obj[i].key = key].value
    ELSE IF key \in ObjectPrototypeKeys THEN Inherited(key) ELSE Undefined

\* PLATFORM_SPECS[platform.toLowerCase()] || null
getPlatformSpec(p) ==
  LET spec == Get(PLATFORM_SPECS, ToLowerCase(p))
  IN Return(IF IsFalsy(spec) THEN Null ELSE spec)

\* Object.keys(PLATFORM_SPECS)
getSupportedPlatforms == Return(ObjectKeys(PLATFORM_SPECS))

\* platform.toLowerCase() in PLATFORM_SPECS
isPlatformSupported(p) == Return(InObject(PLATFORM_SPECS, ToLowerCase(p)))

\* spec.images.dimensions of a looked-up value; a TypeError when the value
\* is an inherited object, which has no images property
getOptimalImageDimensions(p) ==
  LET spec == getPlatformSpec(p).value
  IN IF IsFalsy(spec) THEN Return(Null)
     ELSE IF LacksSpecProperties(spec) THEN Throw("TypeError")
     ELSE IF Len(spec.images.dimensions) = 0 THEN Return(Null)
     ELSE Return(spec.images.dimensions[1])

getOptimalAspectRatio(p) ==
  LET spec == getPlatformSpec(p).value
  IN IF IsFalsy(spec) THEN Return(Null)
     ELSE IF LacksSpecProperties(spec) THEN Throw("TypeError")
     ELSE IF Len(spec.images.dimensions) = 0 THEN Return(Null)
     ELSE Return(spec.images.dimensions[1].aspectRatio)

getOptimalVideoDimensions(p) ==
  LET spec == getPlatformSpec(p).value
  IN IF IsFalsy(spec) THEN Return(Null)
     ELSE IF LacksSpecProperties(spec) THEN Throw("TypeError")
     ELSE IF Len(spec.videos.dimensions) = 0 THEN Return(Null)
     ELSE Return(spec.videos.dimensions[1])

(***************************************************************************)
(* Content Validator                                                       *)
(***************************************************************************)
\* a message: the template that built it and the values interpolated into it
Msg(kind, name, text, a, b) ==
  [kind |-> kind, name |-> name, text |-> text, a |-> a, b |-> b]

\* {}
EmptyObject == [k \in {} |-> 0]

\* {...a, ...b}: the properties of b override those of a
Spread(a, b) == b @@ a

\* the result every validator returns when the looked-up spec is falsy
UnknownPlatformResult(p) ==
  [valid |-> FALSE,
   errors |-> << Msg("Unknown platform", "", p, 0, 0) >>,
   warnings |-> << >>,
   stats |-> EmptyObject]

Fires(push) == push.fires

\* the messages of the pushes that fire, in the order of the pushes
Pushed(pushes) ==
  LET fired == SelectSeq(pushes, Fires)
  IN [i \in 1..Len(fired) |-> fired[i].msg]

Push(cond, msg) == [fires |-> cond, msg |-> msg]

\* faulty variant of TextLimitExceeded: a content of exactly maxChars
\* characters is rejected
TextLimitExceeded_Inclusive(charCount, maxChars) == charCount >= maxChars

\* the character-limit check of validateTextContent
TextLimitExceeded(charCount, maxChars) == charCount > maxChars

\* the pushes onto errors of validateTextContent
TextErrorPushes(spec, charCount) ==
  << Push(TextLimitExceeded(charCount, spec.text.maxChars),
          Msg("Content exceeds character limit", spec.name, << >>,
              charCount, spec.text.maxChars)) >>

\* faulty variant of TextWarningPushes: empty content counts as very short
TextWarningPushes_EmptyIsShort(spec, charCount) ==
  << Push(/\ "sweetSpot" \in DOMAIN spec.text
          /\ spec.text.sweetSpot # 0
          /\ charCount > spec.text.sweetSpot,
          Msg("Content exceeds optimal length", spec.name, << >>, charCount,
              IF "sweetSpot" \in DOMAIN spec.text
                THEN spec.text.sweetSpot ELSE 0)),
     Push(charCount < 10,
          Msg("Content is very short", "", << >>, charCount, 0)) >>

\* the pushes onto warnings of validateTextContent
TextWarningPushes(spec, charCount) ==
  << Push(/\ "sweetSpot" \in DOMAIN spec.text
          /\ spec.text.sweetSpot # 0
          /\ charCount > spec.text.sweetSpot,
          Msg("Content exceeds optimal length", spec.name, << >>, charCount,
              IF "sweetSpot" \in DOMAIN spec.text
                THEN spec.text.sweetSpot ELSE 0)),
     Push(charCount < 10 /\ charCount > 0,
          Msg("Content is very short", "", << >>, charCount, 0)) >>

validateTextContent(p, c) ==
  LET spec == Get(PLATFORM_SPECS, ToLowerCase(p))
  IN IF IsFalsy(spec) THEN Return(UnknownPlatformResult(p))
     ELSE IF LacksSpecProperties(spec) THEN Throw("TypeError")
     ELSE
       LET charCount == RunsLength(c)
           errors == Pushed(TextErrorPushes(spec, charCount))
           warnings == Pushed(TextWarningPushes(spec, charCount))
       IN Return([valid |-> Len(errors) = 0,
                  errors |-> errors,
                  warnings |-> warnings,
                  stats |-> [charCount |-> charCount,
                             charLimit |-> spec.text.maxChars]])

\* faulty variant of cleanTag: the leading '#' is kept
cleanTag_KeepHash(tag) == tag

\* tag.replace(/^#/, '')
cleanTag(tag) ==
  IF Len(tag) > 0 /\ tag[1] = "#" THEN SubSeq(tag, 2, Len(tag)) ELSE tag

\* the count check of validateHashtags
HashtagCountErrorPushes(spec, count) ==
  << Push(count > spec.hashtags.max,
          Msg("Too many hashtags", spec.name, << >>,
              count, spec.hashtags.max)) >>

\* faulty variant of HashtagCountWarningPushes: the warning is an else-branch
\* of the count error
HashtagCountWarningPushes_ElseIf(spec, count) ==
  << Push(count > spec.hashtags.recommended /\ ~(count > spec.hashtags.max),
          Msg("More hashtags than recommended", spec.name, << >>,
              spec.hashtags.recommended, count)) >>

\* the recommended-count check of validateHashtags
HashtagCountWarningPushes(spec, count) ==
  << Push(count > spec.hashtags.recommended,
          Msg("More hashtags than recommended", spec.name, << >>,
              spec.hashtags.recommended, count)) >>

\* faulty variant of TagTooLong: a tag of exactly 30 characters is reported
TagTooLong_Inclusive(clean) == Len(clean) >= 30

\* the length check on a cleaned tag
TagTooLong(clean) == Len(clean) > 30

\* hashtags.forEach: the pushes onto errors, tag by tag: the empty check of
\* the tag at index i (0-based i - 1) is push 2i - 1, its space check push 2i
TagErrorPushes(tags) ==
  [j \in 1..(2 * Len(tags)) |->
     LET i == (j + 1) \div 2
         tag == tags[i]
         clean == cleanTag(tag)
     IN IF j % 2 = 1
          THEN Push(Len(clean) = 0,
                    Msg("Hashtag is empty", "", << >>, (i - 1) + 1, 0))
          ELSE Push(Includes(clean, " "),
                    Msg("Hashtag contains spaces", "", tag, 0, 0))]

\* hashtags.forEach: the pushes onto warnings, tag by tag
TagWarningPushes(tags) ==
  [i \in 1..Len(tags) |->
     LET clean == cleanTag(tags[i])
     IN Push(TagTooLong(clean),
             Msg("Hashtag is very long", "", tags[i], Len(clean), 0))]

\* faulty variant of NoHashtagWarningPushes: the platform compared as given
NoHashtagWarningPushes_CaseSensitive(spec, p, count) ==
  << Push(count = 0 /\ p \in {instagram, tiktok, twitter},
          Msg("No hashtags provided", spec.name, << >>, 0, 0)) >>

\* the no-hashtags check of validateHashtags
NoHashtagWarningPushes(spec, p, count) ==
  << Push(count = 0 /\ ToLowerCase(p) \in {instagram, tiktok, twitter},
          Msg("No hashtags provided", spec.name, << >>, 0, 0)) >>

validateHashtags(p, tags) ==
  LET spec == Get(PLATFORM_SPECS, ToLowerCase(p))
  IN IF IsFalsy(spec) THEN Return(UnknownPlatformResult(p))
     ELSE IF LacksSpecProperties(spec) THEN Throw("TypeError")
     ELSE
       LET count == Len(tags)
           errors == Pushed(HashtagCountErrorPushes(spec, count)
                            \o TagErrorPushes(tags))
           warnings == Pushed(HashtagCountWarningPushes(spec, count)
                              \o TagWarningPushes(tags)
                              \o NoHashtagWarningPushes(spec, p, count))
       IN Return([valid |-> Len(errors) = 0,
                  errors |-> errors,
                  warnings |-> warnings,
                  stats |-> [hashtagCount |-> count,
                             hashtagLimit |-> spec.hashtags.max]])

\* arr.includes(x)
ArrayIncludes(arr, x) == \E i \in 1..Len(arr) : arr[i] = x

\* JavaScript numbers are IEEE-754 doubles.  A non-negative number below
\* 2^IntWidth is kept in fixed point, as the sequence of its IntWidth integer
\* bits followed by its FracWidth fraction bits, most significant bit first.
\* A double of that range with 53 significant bits whose leading bit is not
\* below 2^-(FracWidth - 53) is such a sequence exactly.
\* The fraction bits are produced DigitWidth at a time.
IntWidth == 13
DigitWidth == 7
Digits == 10
FracWidth == Digits * DigitWidth
Significand == 53
Width == IntWidth + FracWidth

\* the integer bits of q < 2^IntWidth
IntBits(q) == [i \in 1..IntWidth |-> (q \div 2^(IntWidth - i)) % 2]

\* the bits of a digit q < 2^DigitWidth
DigitBits(q) == [i \in 1..DigitWidth |-> (q \div 2^(DigitWidth - i)) % 2]

\* long division: k more digits of r / d (r < d < 2^24) appended to acc;
\* sticky tells whether a remainder is left
RECURSIVE FracBits(_, _, _, _)
FracBits(r, d, k, acc) ==
  IF k = 0
    THEN [bits |-> acc, sticky |-> r # 0]
    ELSE FracBits((2^DigitWidth * r) % d, d, k - 1,
                  acc \o DigitBits((2^DigitWidth * r) \div d))

\* n / d truncated to Width bits, d > 0 and n < 2^IntWidth * d
Quotient(n, d) == FracBits(n % d, d, Digits, IntBits(n \div d))

\* position of the leading one bit, 0 if there is none
Leading(bits) ==
  IF \A i \in 1..Len(bits) : bits[i] = 0
    THEN 0
    ELSE CHOOSE i \in 1..Len(bits) :
           bits[i] = 1 /\ \A j \in 1..(i - 1) : bits[j] = 0

\* one unit added at position last, the carry rippling upwards
AddUnit(bits, last) ==
  LET j == CHOOSE k \in 1..last :
             bits[k] = 0 /\ \A m \in (k + 1)..last : bits[m] = 1
  IN [i \in 1..Len(bits) |->
        IF i < j THEN bits[i] ELSE IF i = j THEN 1 ELSE 0]

\* round to nearest, ties to even, at Significand significant bits
Round(x) ==
  LET lead == Leading(x.bits)
      last == lead + Significand - 1
  IN IF lead = 0 \/ last >= Len(x.bits)
       THEN x.bits
       ELSE LET rest == \/ x.sticky
                        \/ \E i \in (last + 2)..Len(x.bits) : x.bits[i] = 1
                up == x.bits[last + 1] = 1 /\ (rest \/ x.bits[last] = 1)
                kept == [i \in 1..Len(x.bits) |->
                           IF i <= last THEN x.bits[i] ELSE 0]
            IN IF up THEN AddUnit(kept, last) ELSE kept

\* a < b
Less(a, b) ==
  \E i \in 1..Len(a) : a[i] < b[i] /\ \A j \in 1..(i - 1) : a[j] = b[j]

\* a - b for b <= a, exact: position i borrows when the bits of a below it
\* are less than those of b
Minus(a, b) ==
  [i \in 1..Len(a) |->
     LET borrow == IF \E k \in (i + 1)..Len(a) :
                        a[k] < b[k] /\ \A j \in (i + 1)..(k - 1) : a[j] = b[j]
                     THEN 1
                     ELSE 0
     IN (a[i] - b[i] - borrow + 2) % 2]

\* the double n / d
Divide(n, d) == Round(Quotient(n, d))

\* the double Math.abs(a - b)
AbsDifference(a, b) ==
  LET exact == IF Less(a, b) THEN Minus(b, a) ELSE Minus(a, b)
  IN Round([bits |-> exact, sticky |-> FALSE])

\* the literal 0.05
Tolerance == Divide(1, 20)

\* Math.abs(aspectRatio - dim.width / dim.height) < 0.05 for the double
\* aspectRatio and positive dw, dh
RatioWithinTolerance(aspectRatio, dw, dh) ==
  Less(AbsDifference(aspectRatio, Divide(dw, dh)), Tolerance)

\* dimensions.find(dim => Math.abs(aspectRatio - dimRatio) < 0.05) is defined
\* aspectRatio = w / h for non-negative w, h: h = 0 makes it Infinity or NaN,
\* and every comparison false
HasMatchingDimension(dimensions, w, h) ==
  /\ h > 0
  /\ LET aspectRatio == Divide(w, h)
     IN \E i \in 1..Len(dimensions) :
          RatioWithinTolerance(aspectRatio, dimensions[i].width,
                               dimensions[i].height)

\* Math.min(...dimensions.map(d => d.width)), dimensions not empty
MinWidth(dimensions) ==
  LET ws == {dimensions[i].width : i \in 1..Len(dimensions)}
  IN CHOOSE m \in ws : \A x \in ws : m <= x

\* faulty variant of NormalizeImageFormat: JPEG is not mapped to JPG
NormalizeImageFormat_NoAlias(f) == ToUpperCase(f)

\* format.toUpperCase().replace('JPEG', 'JPG')
NormalizeImageFormat(f) == ReplaceFirst(ToUpperCase(f), JPEG, JPG)

\* the pushes onto errors of validateImage
ImageErrorPushes(spec, size, f) ==
  << Push(~ArrayIncludes(spec.images.formats, NormalizeImageFormat(f)),
          Msg("Invalid image format", spec.name, << >>, 0, 0)),
     Push(size > spec.images.maxSizeMB,
          Msg("Image size exceeds limit", spec.name, << >>,
              size, spec.images.maxSizeMB)) >>

\* faulty variant of ImageWarningPushes: a width of exactly half the minimum
\* counts as small
ImageWarningPushes_AtHalf(spec, w, h) ==
  << Push(~HasMatchingDimension(spec.images.dimensions, w, h),
          Msg("Image aspect ratio does not match", spec.name, << >>, w, h)),
     Push(2 * w <= MinWidth(spec.images.dimensions),
          Msg("Image width is quite small", spec.name, << >>,
              w, MinWidth(spec.images.dimensions))) >>

\* the pushes onto warnings of validateImage; width < minRecommendedWidth * 0.5
\* is 2 * width < minRecommendedWidth
ImageWarningPushes(spec, w, h) ==
  << Push(~HasMatchingDimension(spec.images.dimensions, w, h),
          Msg("Image aspect ratio does not match", spec.name, << >>, w, h)),
     Push(2 * w < MinWidth(spec.images.dimensions),
          Msg("Image width is quite small", spec.name, << >>,
              w, MinWidth(spec.images.dimensions))) >>

validateImage(p, w, h, size, f) ==
  LET spec == Get(PLATFORM_SPECS, ToLowerCase(p))
  IN IF IsFalsy(spec) THEN Return(UnknownPlatformResult(p))
     ELSE IF LacksSpecProperties(spec) THEN Throw("TypeError")
     ELSE
       LET errors == Pushed(ImageErrorPushes(spec, size, f))
           warnings == Pushed(ImageWarningPushes(spec, w, h))
       IN Return([valid |-> Len(errors) = 0,
                  errors |-> errors,
                  warnings |-> warnings,
                  stats |-> [width |-> w, height |-> h, fileSizeMB |-> size,
                             maxSizeMB |-> spec.images.maxSizeMB]])

\* faulty variant of VideoErrorPushes: the checks chained by else-if, so that
\* the first failure hides the later ones
VideoErrorPushes_ShortCircuit(spec, duration, size, f) ==
  LET badFormat == ~ArrayIncludes(spec.videos.formats, ToUpperCase(f))
      badSize == size > spec.videos.maxSizeMB
  IN << Push(badFormat,
             Msg("Invalid video format", spec.name, << >>, 0, 0)),
        Push(~badFormat /\ badSize,
             Msg("Video size exceeds limit", spec.name, << >>,
                 size, spec.videos.maxSizeMB)),
        Push(~badFormat /\ ~badSize
               /\ duration > spec.videos.maxDurationSeconds,
             Msg("Video duration exceeds limit", spec.name, << >>,
                 duration, spec.videos.maxDurationSeconds)) >>

\* faulty variant of VideoErrorPushes: a duration exactly at the limit is an
\* error
VideoErrorPushes_AtLimit(spec, duration, size, f) ==
  << Push(~ArrayIncludes(spec.videos.formats, ToUpperCase(f)),
          Msg("Invalid video format", spec.name, << >>, 0, 0)),
     Push(size > spec.videos.maxSizeMB,
          Msg("Video size exceeds limit", spec.name, << >>,
              size, spec.videos.maxSizeMB)),
     Push(duration >= spec.videos.maxDurationSeconds,
          Msg("Video duration exceeds limit", spec.name, << >>,
              duration, spec.videos.maxDurationSeconds)) >>

\* the pushes onto errors of validateVideo
VideoErrorPushes(spec, duration, size, f) ==
  << Push(~ArrayIncludes(spec.videos.formats, ToUpperCase(f)),
          Msg("Invalid video format", spec.name, << >>, 0, 0)),
     Push(size > spec.videos.maxSizeMB,
          Msg("Video size exceeds limit", spec.name, << >>,
              size, spec.videos.maxSizeMB)),
     Push(duration > spec.videos.maxDurationSeconds,
          Msg("Video duration exceeds limit", spec.name, << >>,
              duration, spec.videos.maxDurationSeconds)) >>

\* faulty variant of VideoWarningPushes: the platform is compared as given
VideoWarningPushes_CaseSensitive(spec, p, w, h, duration) ==
  << Push(duration < 3,
          Msg("Video is very short", "", << >>, duration, 0)),
     Push(~HasMatchingDimension(spec.videos.dimensions, w, h),
          Msg("Video aspect ratio does not match", spec.name, << >>, w, h)),
     Push(p = instagram /\ duration > 90,
          Msg("Video is longer than 90 seconds", "", << >>, 0, 0)),
     Push(p = tiktok /\ duration > 60,
          Msg("Video is longer than 60 seconds", "", << >>, 0, 0)) >>

\* the pushes onto warnings of validateVideo
VideoWarningPushes(spec, p, w, h, duration) ==
  << Push(duration < 3,
          Msg("Video is very short", "", << >>, duration, 0)),
     Push(~HasMatchingDimension(spec.videos.dimensions, w, h),
          Msg("Video aspect ratio does not match", spec.name, << >>, w, h)),
     Push(ToLowerCase(p) = instagram /\ duration > 90,
          Msg("Video is longer than 90 seconds", "", << >>, 0, 0)),
     Push(ToLowerCase(p) = tiktok /\ duration > 60,
          Msg("Video is longer than 60 seconds", "", << >>, 0, 0)) >>

validateVideo(p, w, h, duration, size, f) ==
  LET spec == Get(PLATFORM_SPECS, ToLowerCase(p))
  IN IF IsFalsy(spec) THEN Return(UnknownPlatformResult(p))
     ELSE IF LacksSpecProperties(spec) THEN Throw("TypeError")
     ELSE
       LET errors == Pushed(VideoErrorPushes(spec, duration, size, f))
           warnings == Pushed(VideoWarningPushes(spec, p, w, h, duration))
       IN Return([valid |-> Len(errors) = 0,
                  errors |-> errors,
                  warnings |-> warnings,
                  stats |-> [width |-> w, height |-> h,
                             durationSeconds |-> duration,
                             maxDurationSeconds |->
                               spec.videos.maxDurationSeconds,
                             fileSizeMB |-> size,
                             maxSizeMB |-> spec.videos.maxSizeMB]])

\* faulty variant of CombineResults: valid taken from the text result alone
CombineResults_TextValidOnly(textResult, hashtagResult) ==
  [valid |-> textResult.valid,
   errors |-> textResult.errors \o hashtagResult.errors,
   warnings |-> textResult.warnings \o hashtagResult.warnings,
   stats |-> Spread(textResult.stats, hashtagResult.stats)]

\* faulty variant of CombineResults: the hashtag errors put first
CombineResults_HashtagErrorsFirst(textResult, hashtagResult) ==
  [valid |-> textResult.valid /\ hashtagResult.valid,
   errors |-> hashtagResult.errors \o textResult.errors,
   warnings |-> textResult.warnings \o hashtagResult.warnings,
   stats |-> Spread(textResult.stats, hashtagResult.stats)]

\* the object validatePost builds from the two results
CombineResults(textResult, hashtagResult) ==
  [valid |-> textResult.valid /\ hashtagResult.valid,
   errors |-> textResult.errors \o hashtagResult.errors,
   warnings |-> textResult.warnings \o hashtagResult.warnings,
   stats |-> Spread(textResult.stats, hashtagResult.stats)]

\* an exception of either call propagates, validateTextContent's first
validatePost(p, c, tags) ==
  LET textResult == validateTextContent(p, c)
      hashtagResult == validateHashtags(p, tags)
  IN IF textResult.status = "threw" THEN textResult
     ELSE IF hashtagResult.status = "threw" THEN hashtagResult
     ELSE Return(CombineResults(textResult.value, hashtagResult.value))

(***************************************************************************)
(* Route handlers                                                          *)
(*                                                                         *)
(* A parsed JSON body is the record of the JSON types of its properties    *)
(* ("undefined" for a missing one); the values of its string and array     *)
(* properties are the arguments platform, content and hashtags.            *)
(***************************************************************************)
\* NextResponse.json(body, { status }); the objects passed hold booleans,
\* numbers, strings, arrays and objects only, which JSON keeps as they are
NextResponseJson(body, status) == [status |-> status, body |-> body]

\* the { error, details } object of a failure
ErrorBody(error, details) == [error |-> error, details |-> details]

\* request.json() rejects
Malformed == [parsed |-> FALSE]

\* !body.platform || typeof body.content !== 'string'
MissingValidateFields(body, p, c) ==
  \/ body.platform # "string" \/ p = << >>
  \/ body.content # "string"

\* POST of /api/validate-content: the response and the collaborators called
POST_validate_content(body, p, c, tags) ==
  IF ~body.parsed
    THEN [response |-> NextResponseJson(
                         ErrorBody("Failed to validate content",
                                   "SyntaxError"), 500),
          invoked |-> << >>]
  ELSE IF MissingValidateFields(body, p, c)
    THEN [response |-> NextResponseJson(
                         ErrorBody("Missing required fields: platform, content",
                                   ""), 400),
          invoked |-> << >>]
  ELSE
    LET outcome == validatePost(p, c, IF body.hashtags = "array"
                                        THEN tags ELSE << >>)
    IN [response |->
          IF outcome.status = "threw"
            THEN NextResponseJson(
                   ErrorBody("Failed to validate content", outcome.error), 500)
            ELSE NextResponseJson(outcome.value, 200),
        invoked |-> << "validatePost" >>]

\* o.k is not undefined
Has(o, k) == k \in DOMAIN o

\* the keys of the platformGuidelines literal of getSystemPrompt, read with
\* the platform as given (no lower-casing)
platformGuidelines == {instagram, twitter, facebook, tiktok, linkedin}

\* getSystemPrompt of /api/generate-post: the values the template
\* interpolates; an Error when the lookup gives null, a TypeError when it
\* gives an inherited object, whose text property is undefined
getSystemPrompt(p) ==
  LET platformSpec == getPlatformSpec(p).value
  IN IF IsFalsy(platformSpec) THEN Throw("Unknown platform")
     ELSE IF LacksSpecProperties(platformSpec) THEN Throw("TypeError")
     ELSE Return([name |-> platformSpec.name,
                  guidelines |-> p \in platformGuidelines,
                  maxChars |-> platformSpec.text.maxChars,
                  hashtagMax |-> platformSpec.hashtags.max,
                  recommended |-> platformSpec.hashtags.recommended,
                  imageFormats |-> platformSpec.images.formats,
                  videoFormats |-> platformSpec.videos.formats,
                  imageRatios |->
                    [i \in 1..Len(platformSpec.images.dimensions) |->
                       platformSpec.images.dimensions[i].aspectRatio],
                  videoRatio |->
                    IF Len(platformSpec.videos.dimensions) = 0
                      THEN "16:9 or 9:16"
                      ELSE platformSpec.videos.dimensions[1].aspectRatio])

\* !body.platform || !body.postType || !body.topic
MissingGenerateFields(body, p) ==
  \/ body.platform # "string" \/ p = << >>
  \/ body.postType \in {"undefined", ""}
  \/ body.topic \in {"undefined", ""}

\* the call of the text model
GenerateContentCall(systemPrompt) ==
  [callee |-> "generateContent", model |-> "gemini-2.5-flash",
   systemPrompt |-> systemPrompt]

\* POST of /api/generate-post up to its await of the text model: either the
\* response of an early return or of the catch block, or the model call
POST_generate_post(body, p) ==
  IF ~body.parsed
    THEN [responded |-> TRUE,
          response |-> NextResponseJson(
                         ErrorBody("Failed to generate post", "SyntaxError"),
                         500),
          invoked |-> << >>]
  ELSE IF MissingGenerateFields(body, p)
    THEN [responded |-> TRUE,
          response |-> NextResponseJson(
                         ErrorBody("Missing required fields: platform, postType, topic",
                                   ""), 400),
          invoked |-> << >>]
  ELSE IF IsFalsy(getPlatformSpec(p).value)
    THEN [responded |-> TRUE,
          response |-> NextResponseJson(
                         ErrorBody("Unsupported platform", p), 400),
          invoked |-> << >>]
  ELSE IF getSystemPrompt(p).status = "threw"
    THEN [responded |-> TRUE,
          response |-> NextResponseJson(
                         ErrorBody("Failed to generate post",
                                   getSystemPrompt(p).error), 500),
          invoked |-> << >>]
  ELSE IF ~body.project
    THEN [responded |-> TRUE,
          response |-> NextResponseJson(
                         ErrorBody("Failed to generate post",
                                   "GOOGLE_CLOUD_PROJECT environment variable is required"),
                         500),
          invoked |-> << >>]
  ELSE [responded |-> FALSE,
        invoked |-> << GenerateContentCall(getSystemPrompt(p).value) >>]

\* Number.prototype.toFixed(6) of a cost given in billionths of a dollar:
\* the decimal string of the nearest millionth, held as its digits after
\* "0." (the costs drawn are below one dollar and lie on no tie)
ToFixed6(nanoUSD) ==
  LET micro == (nanoUSD + 500) \div 1000
  IN [i \in 1..6 |-> (micro \div (10 ^ (6 - i))) % 10]

\* faulty variant of Slice: the list is cut one element short
Slice_OneShort(arr, n) == SubSeq(arr, 1, n - 1)

\* arr.slice(0, n)
Slice(arr, n) == SubSeq(arr, 1, IF n < Len(arr) THEN n ELSE Len(arr))

\* the hashtags of the generated post after the limit check
TruncatedHashtags(generatedPost, platformSpec) ==
  LET hashtagCount == IF Has(generatedPost, "hashtags")
                        THEN Len(generatedPost.hashtags) ELSE 0
  IN IF hashtagCount > platformSpec.hashtags.max
       THEN Slice(generatedPost.hashtags, platformSpec.hashtags.max)
       ELSE IF Has(generatedPost, "hashtags")
              THEN generatedPost.hashtags ELSE << >>

\* a property that JSON.stringify drops when its value is undefined
Optional(k, present, v) == IF present THEN k :> v ELSE EmptyObject

\* responseData of /api/generate-post
ResponseData(body, p, generatedPost, usageMetadata, elapsed) ==
  LET platformSpec == getPlatformSpec(p).value
      inputTokens == IF Has(usageMetadata, "promptTokenCount")
                       THEN usageMetadata.promptTokenCount ELSE 0
      outputTokens == IF Has(usageMetadata, "candidatesTokenCount")
                        THEN usageMetadata.candidatesTokenCount ELSE 0
      postContent == IF Has(generatedPost, "content")
                       THEN generatedPost.content ELSE << >>
      metadata == IF Has(generatedPost, "metadata")
                    THEN generatedPost.metadata ELSE EmptyObject
  IN [platform |-> p,
      post |->
        [content |-> postContent,
         hashtags |-> TruncatedHashtags(generatedPost, platformSpec),
         metadata |->
           [estimatedEngagement |->
              IF Has(metadata, "estimatedEngagement")
                THEN metadata.estimatedEngagement ELSE "medium",
            contentType |->
              IF Has(metadata, "contentType")
                THEN metadata.contentType ELSE body.postType,
            characterCount |-> RunsLength(postContent)]]
        @@ Optional("imagePrompt",
                    body.includeImage /\ Has(generatedPost, "imagePrompt"),
                    "imagePrompt")
        @@ Optional("videoPrompt",
                    body.includeVideo /\ Has(generatedPost, "videoPrompt"),
                    "videoPrompt"),
      usage |->
        [totalTokens |-> inputTokens + outputTokens,
         promptTokens |-> inputTokens,
         completionTokens |-> outputTokens,
         estimatedCostUSD |-> ToFixed6(75 * inputTokens + 300 * outputTokens)],
      generationTimeMs |-> elapsed]

\* POST of /api/generate-post from the settlement of generateContent on:
\* a rejection reaches the catch block, a text that holds no JSON object is
\* answered with the parse failure, a parsed post with responseData
POST_generate_post_resume(body, p, answer, elapsed) ==
  IF answer.status = "rejected"
    THEN NextResponseJson(ErrorBody("Failed to generate post", "rejected"),
                          500)
  ELSE IF answer.text # "json"
    THEN NextResponseJson(ErrorBody("Failed to parse AI response",
                                    answer.text), 500)
  ELSE NextResponseJson(
         ResponseData(body, p, answer.post,
                      IF Has(answer, "usageMetadata")
                        THEN answer.usageMetadata ELSE EmptyObject,
                      elapsed), 200)

(***************************************************************************)
(* Media services                                                          *)
(*                                                                         *)
(* ImagenService trims the aspect ratio it is given, so there an aspect    *)
(* ratio is the string value Str(s) of a sequence of characters s; code    *)
(* that gets an inherited object where it expects a string holds           *)
(* Inherited(key).                                                         *)
(***************************************************************************)
\* a string value
Str(s) == [type |-> "string", chars |-> s]

\* the characters of the aspect-ratio labels
Chars(label) ==
  CASE label = "1:1" -> <<"1", ":", "1">>
    [] label = "3:4" -> <<"3", ":", "4">>
    [] label = "4:3" -> <<"4", ":", "3">>
    [] label = "4:5" -> <<"4", ":", "5">>
    [] label = "5:4" -> <<"5", ":", "4">>
    [] label = "2:3" -> <<"2", ":", "3">>
    [] label = "3:2" -> <<"3", ":", "2">>
    [] label = "9:16" -> <<"9", ":", "1", "6">>
    [] label = "16:9" -> <<"1", "6", ":", "9">>
    [] label = "21:9" -> <<"2", "1", ":", "9">>
    [] label = "1.91:1" -> <<"1", ".", "9", "1", ":", "1">>

\* ImagenService.VALID_ASPECT_RATIOS
VALID_ASPECT_RATIOS ==
  << Chars("1:1"), Chars("3:4"), Chars("4:3"), Chars("9:16"), Chars("16:9") >>

\* ImagenService.DEFAULT_ASPECT_RATIO
DEFAULT_ASPECT_RATIO == Chars("1:1")

\* String.prototype.trim on strings whose only whitespace is the space
Trim(s) ==
  LET kept == {i \in 1..Len(s) : s[i] # " "}
  IN IF kept = {} THEN << >>
     ELSE SubSeq(s, CHOOSE i \in kept : \A j \in kept : i <= j,
                    CHOOSE i \in kept : \A j \in kept : j <= i)

\* the aspectRatioMap literal of getPlatformAspectRatio
aspectRatioMap ==
  << [key |-> instagram, value |-> Str(Chars("3:4"))],
     [key |-> twitter, value |-> Str(Chars("16:9"))],
     [key |-> facebook, value |-> Str(Chars("16:9"))],
     [key |-> tiktok, value |-> Str(Chars("9:16"))],
     [key |-> linkedin, value |-> Str(Chars("16:9"))] >>

\* ImagenService.getPlatformAspectRatio
getPlatformAspectRatio(p) ==
  IF IsFalsy(getPlatformSpec(p).value) THEN Str(DEFAULT_ASPECT_RATIO)
  ELSE LET mapped == Get(aspectRatioMap, ToLowerCase(p))
       IN IF IsFalsy(mapped) THEN Str(DEFAULT_ASPECT_RATIO) ELSE mapped

\* the fallbackMap literal of validateAspectRatio
fallbackMap ==
  << [key |-> Chars("4:5"), value |-> Str(Chars("3:4"))],
     [key |-> Chars("5:4"), value |-> Str(Chars("4:3"))],
     [key |-> Chars("2:3"), value |-> Str(Chars("3:4"))],
     [key |-> Chars("3:2"), value |-> Str(Chars("4:3"))],
     [key |-> Chars("21:9"), value |-> Str(Chars("16:9"))] >>

\* ImagenService.validateAspectRatio; a TypeError when the value given is an
\* inherited object, which has no trim method
validateAspectRatio(aspectRatio) ==
  IF aspectRatio.type # "string" THEN Throw("TypeError")
  ELSE LET normalized == Trim(aspectRatio.chars)
       IN IF ArrayIncludes(VALID_ASPECT_RATIOS, normalized)
            THEN Return(Str(normalized))
          ELSE LET fallback == Get(fallbackMap, normalized)
               IN IF IsFalsy(fallback) THEN Return(Str(DEFAULT_ASPECT_RATIO))
                  ELSE Return(fallback)

\* options.aspectRatio || this.getPlatformAspectRatio(options.platform)
RawAspectRatio(options, p) ==
  IF Has(options, "aspectRatio") /\ options.aspectRatio # << >>
    THEN Str(options.aspectRatio)
    ELSE getPlatformAspectRatio(p)

\* the call of the image model
GenerateImagesCall(aspectRatio, options) ==
  [callee |-> "generateImages",
   aspectRatio |-> aspectRatio,
   numberOfImages |-> IF Has(options, "numberOfImages")
                        /\ options.numberOfImages # 0
                        THEN options.numberOfImages ELSE 1]

\* the failure result of the catch block of generateImage
ImageFailure(message) == [success |-> FALSE, error |-> message]

\* ImagenService.generateImage up to its await of the image model: either
\* the result of the catch block, or the model call
generateImage(options, p) ==
  LET validated == validateAspectRatio(RawAspectRatio(options, p))
  IN IF validated.status = "threw"
       THEN [responded |-> TRUE, response |-> ImageFailure(validated.error),
             invoked |-> << >>]
       ELSE [responded |-> FALSE,
             invoked |-> << GenerateImagesCall(validated.value, options) >>]

\* parseFloat((sizeBytes / (1024 * 1024)).toFixed(2)), in hundredths of a
\* megabyte: the quotient is exact in a double, and toFixed rounds a tie up
SizeMBHundredths(sizeBytes) == (200 * sizeBytes + 1048576) \div 2097152

\* ImagenService.generateImage from the settlement of generateImages on; the
\* base64 data of an image is held as the number of bytes it decodes to
generateImage_resume(call, answer, elapsed) ==
  IF answer.status = "rejected" THEN ImageFailure("rejected")
  ELSE IF ~Has(answer, "generatedImages") \/ Len(answer.generatedImages) = 0
    THEN ImageFailure("No image predictions returned from Vertex AI")
  ELSE IF ~Has(answer.generatedImages[1], "imageBytes")
    THEN ImageFailure("No image data returned from Vertex AI")
  ELSE LET image == answer.generatedImages[1]
           mimeType == IF Has(image, "mimeType")
                         THEN image.mimeType ELSE "image/png"
       IN [success |-> TRUE,
           dataUrl |-> [mimeType |-> mimeType, base64 |-> image.imageBytes],
           base64 |-> image.imageBytes,
           mimeType |-> mimeType,
           metadata |->
             [sizeBytes |-> image.imageBytes,
              sizeMB |-> SizeMBHundredths(image.imageBytes),
              dimensions |-> call.aspectRatio,
              generationTimeMs |-> elapsed]]

\* the settingsMap literal of getPlatformVideoSettings
settingsMap ==
  << [key |-> instagram,
      value |-> [type |-> "settings", aspectRatio |-> "9:16", duration |-> 60]],
     [key |-> twitter,
      value |-> [type |-> "settings", aspectRatio |-> "16:9", duration |-> 45]],
     [key |-> facebook,
      value |-> [type |-> "settings", aspectRatio |-> "9:16", duration |-> 60]],
     [key |-> tiktok,
      value |-> [type |-> "settings", aspectRatio |-> "9:16", duration |-> 30]],
     [key |-> linkedin,
      value |-> [type |-> "settings", aspectRatio |-> "16:9", duration |-> 90]] >>

\* VeoService.getPlatformVideoSettings
getPlatformVideoSettings(p) ==
  LET settings == Get(settingsMap, ToLowerCase(p))
  IN IF IsFalsy(settings)
       THEN [type |-> "settings", aspectRatio |-> "16:9", duration |-> 30]
       ELSE settings

\* VeoService.generateVideo: the placeholder result; the aspectRatio and the
\* duration of an inherited object are undefined, which JSON and the result
\* type leave out
generateVideo(options, p, elapsed) ==
  LET platformSettings == getPlatformVideoSettings(p)
      given == platformSettings.type = "settings"
      ratioGiven == Has(options, "aspectRatio") /\ options.aspectRatio # ""
      durationGiven == Has(options, "durationSeconds")
                         /\ options.durationSeconds # 0
  IN [success |-> FALSE,
      error |-> "Veo 3.1 video generation is not yet available in this SDK version",
      metadata |->
        [sizeBytes |-> 0, sizeMB |-> 0, generationTimeMs |-> elapsed]
        @@ Optional("durationSeconds", durationGiven \/ given,
                    IF durationGiven THEN options.durationSeconds
                    ELSE platformSettings.duration)
        @@ Optional("dimensions", ratioGiven \/ given,
                    IF ratioGiven THEN options.aspectRatio
                    ELSE platformSettings.aspectRatio)]

\* faulty variant of PlatformVideoErrorPushes: the limits themselves fail
PlatformVideoErrorPushes_AtLimit(platformSpec, videoSizeMB, duration) ==
  << Push(videoSizeMB >= platformSpec.videos.maxSizeMB,
          Msg("Video size exceeds platform limit", "", << >>,
              videoSizeMB, platformSpec.videos.maxSizeMB)),
     Push(duration >= platformSpec.videos.maxDurationSeconds,
          Msg("Video duration exceeds platform limit", "", << >>,
              duration, platformSpec.videos.maxDurationSeconds)) >>

\* the size and duration checks of validateForPlatform; the sizes drawn are
\* whole numbers, to which toFixed(2) only adds ".00"
PlatformVideoErrorPushes(platformSpec, videoSizeMB, duration) ==
  << Push(videoSizeMB > platformSpec.videos.maxSizeMB,
          Msg("Video size exceeds platform limit", "", << >>,
              videoSizeMB, platformSpec.videos.maxSizeMB)),
     Push(duration > platformSpec.videos.maxDurationSeconds,
          Msg("Video duration exceeds platform limit", "", << >>,
              duration, platformSpec.videos.maxDurationSeconds)) >>

\* VeoService.validateForPlatform: the settlement of the promise it returns
validateForPlatform(videoSizeMB, duration, p) ==
  LET platformSpec == getPlatformSpec(p).value
  IN IF IsFalsy(platformSpec)
       THEN Return([valid |-> FALSE,
                    errors |-> << Msg("Unknown platform", "", p, 0, 0) >>])
     ELSE IF LacksSpecProperties(platformSpec) THEN Throw("TypeError")
     ELSE LET errors == Pushed(PlatformVideoErrorPushes(platformSpec,
                                                        videoSizeMB, duration))
          IN Return([valid |-> Len(errors) = 0, errors |-> errors])

(***************************************************************************)
(* Inputs                                                                  *)
(***************************************************************************)
\* length of the tail of freely chosen tags of a hashtag list
MaxTail == 2

\* platform arguments: the five keys, case variants of them, names that are
\* no property of PLATFORM_SPECS, the empty string, and names that (lower-
\* cased or not) are properties of Object.prototype
PlatformInputs ==
  { instagram, twitter, facebook, tiktok, linkedin, << >>,
    <<"I", "N", "S", "T", "A", "G", "R", "A", "M">>,
    <<"T", "w", "i", "t", "t", "e", "r">>,
    <<"T", "i", "k", "T", "o", "k">>,
    <<"L", "i", "n", "k", "e", "d", "I", "n">>,
    <<"m", "y", "s", "p", "a", "c", "e">>,
    <<"c", "o", "n", "s", "t", "r", "u", "c", "t", "o", "r">>,
    <<"C", "o", "n", "s", "t", "r", "u", "c", "t", "o", "r">>,
    <<"_", "_", "p", "r", "o", "t", "o", "_", "_">>,
    <<"t", "o", "S", "t", "r", "i", "n", "g">> }

\* content lengths around every maxChars and sweetSpot of the registry
ContentLengths ==
  { 0, 1, 9, 10, 80, 81, 125, 126, 280, 281, 300, 1500, 1501, 2200, 2201,
    3000, 3001, 4000, 4001, 63206, 63207 }

ContentInputs ==
  { IF n = 0 THEN << >> ELSE << Run("A", n) >> : n \in ContentLengths }
  \cup { << Run("H", 1), Run("i", 1) >>, << Run("A", 279), Run("!", 2) >> }

PostContentInputs ==
  { IF n = 0 THEN << >> ELSE << Run("A", n) >> :
      n \in {0, 5, 126, 280, 281, 300, 2201, 63207} }

\* tags with and without a leading '#', empty, with a space, and of 30 and
\* 31 characters
TagInputs ==
  { <<"a">>, <<"#", "a">>, << >>, <<"#">>, <<"#", "#">>, <<"a", " ", "b">>,
    Repeat("b", 30), Repeat("b", 31), <<"#">> \o Repeat("b", 30) }

PostTagInputs == { <<"a">>, <<"#">>, <<"a", " ", "b">>, Repeat("b", 31) }

\* sequences over S of length at most n
SeqsUpTo(S, n) == UNION { [1..k -> S] : k \in 0..n }

\* hashtag lists: a run of the tag "a" that brings the count next to a max or
\* recommended value of the registry, then at most MaxTail chosen tags; and
\* lists of 998 to 1000 tags, around the max of 999
HashtagInputs ==
  { Repeat(<<"a">>, n) \o tail :
      n \in {0, 2, 4, 29}, tail \in SeqsUpTo(TagInputs, MaxTail) }
  \cup { Repeat(<<"a">>, 998) \o tail :
          tail \in { << >>, << <<"a">> >>, << <<"#">> >>,
                     << <<"a">>, <<"a">> >>, << <<"a">>, <<"#">> >> } }

PostHashtagInputs ==
  { Repeat(<<"a">>, n) \o tail :
      n \in {0, 4, 29}, tail \in SeqsUpTo(PostTagInputs, MaxTail) }

\* <<width, height>> of a medium
\* recommended sizes, widths at and just under half a minimum width, ratios
\* exactly 0.05 off a recommended ratio, and a zero height
DimensionInputs ==
  { <<1080, 1080>>, <<1200, 675>>, <<1200, 630>>, <<1080, 1920>>,
    <<500, 500>>, <<540, 540>>, <<539, 539>>, <<600, 338>>, <<599, 337>>,
    <<21, 20>>, <<19, 20>>, <<17, 20>>, <<850, 1000>>, <<3, 4>>,
    <<311, 180>>, <<329, 180>>, <<779, 420>>, <<821, 420>>,
    <<100, 0>>, <<0, 0>>, <<0, 100>> }

ImageSizeInputs == { 1, 5, 6, 10, 11, 15, 16, 30, 31, 50, 51 }

ImageFormatInputs ==
  { JPG, PNG, GIF, JPEG, <<"j", "p", "g">>, <<"J", "p", "e", "g">>,
    <<"p", "n", "g">>, <<"g", "i", "f">>, <<"w", "e", "b", "p">>,
    <<"X", "J", "P", "E", "G">>, << >> }

\* the calls of validateImage: every shape with one size and format, and
\* every size and format with a matching and a small square shape
ImageInputs ==
  (DimensionInputs \X {1} \X {JPG})
    \cup ({<<1080, 1080>>, <<500, 500>>} \X ImageSizeInputs
            \X ImageFormatInputs)

VideoSizeInputs == { 15, 16, 50, 51, 200, 201, 512, 513, 4000, 4001 }

DurationInputs ==
  { 0, 2, 3, 60, 61, 90, 91, 140, 141, 600, 601, 900, 901, 3600, 3601,
    14460, 14461 }

VideoDimensionInputs ==
  { <<1080, 1920>>, <<1280, 720>>, <<720, 1280>>, <<500, 500>>,
    <<49, 80>>, <<41, 80>>, <<311, 180>>, <<329, 180>>, <<100, 0>> }

VideoFormatInputs ==
  { MP4, MOV, JPEG, <<"m", "p", "4">>, <<"M", "o", "v">>, <<"a", "v", "i">> }

\* the calls of validateVideo: every shape with one size, duration and
\* format; every size with one duration and every duration with one size, and
\* a few of both together, each with every format and one shape
VideoInputs ==
  (VideoDimensionInputs \X {<<15, 60>>} \X {MP4})
    \cup ({<<1080, 1920>>}
            \X ((VideoSizeInputs \X {60}) \cup ({15} \X DurationInputs)
                  \cup ({16, 4001} \X {2, 91, 901, 14461}))
            \X VideoFormatInputs)
    \cup ({<<500, 500>>} \X ({15, 16} \X {2, 60, 901}) \X {MP4})

\* bodies of /api/validate-content: a platform that is a string, null or
\* missing, a content that is a string, a number, null or missing, hashtags
\* that are an array, null or missing
ValidateBodies ==
  [parsed : {TRUE}, platform : {"string", "null", "undefined"},
   content : {"string", "number", "null", "undefined"},
   hashtags : {"array", "null", "undefined"}]

RouteContentInputs == { << >>, << Run("A", 100) >>, << Run("A", 281) >> }

RouteHashtagInputs ==
  { << >>, << <<"#", "a">> >>, Repeat(<<"a">>, 6), << <<"a", " ", "b">> >> }

\* bodies and environment of /api/generate-post: a platform that is a string
\* or missing, a postType and a topic that are missing, empty or given, the
\* two media flags, and whether GOOGLE_CLOUD_PROJECT is set
GenerateBodies ==
  [parsed : {TRUE}, project : BOOLEAN,
   platform : {"string", "undefined"},
   postType : {"undefined", "", "promotional"},
   topic : {"undefined", "", "launch"},
   includeImage : BOOLEAN, includeVideo : BOOLEAN]

\* the i-th of a list of distinct three-letter hashtags
Tag(i) ==
  << LowerLetters[((i \div 676) % 26) + 1],
     LowerLetters[((i \div 26) % 26) + 1],
     LowerLetters[(i % 26) + 1] >>

Tags(n) == [i \in 1..n |-> Tag(i)]

\* hashtag counts of a generated post: around every hashtags.max
HashtagCounts == { 0, 3, 5, 6, 30, 31, 999, 1000 }

\* a content property that is missing, empty, short or above every maxChars
\* but facebook's
GeneratedContentInputs ==
  { <<FALSE, << >> >>, <<TRUE, << >> >>,
    <<TRUE, << Run("A", 10) >> >>, <<TRUE, << Run("A", 4001) >> >> }

\* the properties besides content and hashtags: none, some, all
GeneratedRestInputs ==
  { EmptyObject,
    [imagePrompt |-> "imagePrompt",
     metadata |-> [targetAudience |-> "targetAudience"]],
    [imagePrompt |-> "imagePrompt", videoPrompt |-> "videoPrompt",
     metadata |-> [estimatedEngagement |-> "high",
                   contentType |-> "educational",
                   targetAudience |-> "targetAudience"]] }

\* every hashtag list with one content, and every content with a missing
\* and a short hashtag list
GeneratedPostInputs ==
  ({ <<TRUE, << Run("A", 10) >> >> }
     \X ({ <<FALSE, << >> >> } \cup { <<TRUE, Tags(n)>> : n \in HashtagCounts })
     \X { [imagePrompt |-> "imagePrompt", videoPrompt |-> "videoPrompt",
           metadata |-> [estimatedEngagement |-> "high",
                         contentType |-> "educational",
                         targetAudience |-> "targetAudience"]] })
  \cup (GeneratedContentInputs
          \X { <<FALSE, << >> >>, <<TRUE, Tags(3)>> }
          \X GeneratedRestInputs)

\* the objects JSON.parse gives for the text of the model: content and
\* hashtags present or not, the other properties all present, partly
\* present or all missing
GeneratedPosts ==
  { Optional("content", i[1][1], i[1][2])
      @@ Optional("hashtags", i[2][1], i[2][2]) @@ i[3] :
      i \in GeneratedPostInputs }

\* settlements of generateContent: a rejection, or a result whose text is
\* missing or empty (""), holds no braces ("prose"), holds braces around
\* something JSON.parse rejects ("braces"), or holds a JSON object ("json")
ModelReplies ==
  { [status |-> "rejected"] }
  \cup { [status |-> "fulfilled", text |-> t] : t \in { "", "prose", "braces" } }
  \cup { [status |-> "fulfilled", text |-> "json", post |-> g] @@ u :
           g \in GeneratedPosts,
           u \in { EmptyObject,
                   [usageMetadata |-> [promptTokenCount |-> 1200,
                                       candidatesTokenCount |-> 300]] } }

\* Date.now() - startTime, in milliseconds
ElapsedInputs == { 0, 1500 }

\* aspect-ratio strings: the five that Imagen supports, bare and padded
\* with spaces, the five keys of fallbackMap, other ratios, blank strings,
\* and names that are properties of Object.prototype
AspectRatioInputs ==
  { Chars("1:1"), Chars("3:4"), Chars("4:3"), Chars("9:16"), Chars("16:9"),
    <<" ">> \o Chars("16:9") \o <<" ">>, Chars("3:4") \o <<" ", " ">>,
    Chars("4:5"), Chars("5:4"), Chars("2:3"), Chars("3:2"), Chars("21:9"),
    <<" ">> \o Chars("4:5"),
    Chars("1.91:1"), <<"7", ":", "3">>, <<"1", " ", ":", " ", "1">>,
    << >>, <<" ">>,
    <<"c", "o", "n", "s", "t", "r", "u", "c", "t", "o", "r">>,
    <<"C", "o", "n", "s", "t", "r", "u", "c", "t", "o", "r">>,
    <<" ", "v", "a", "l", "u", "e", "O", "f", " ">>,
    <<"_", "_", "p", "r", "o", "t", "o", "_", "_">> }

\* the calls of generateImage: every platform without an override, with an
\* empty one and with a number of images; every override on a supported, an
\* unknown and an inherited platform name
GenerateImageInputs ==
  (PlatformInputs
     \X { EmptyObject, [aspectRatio |-> << >>], [numberOfImages |-> 2] })
  \cup ({ instagram, <<"m", "y", "s", "p", "a", "c", "e">>,
          <<"c", "o", "n", "s", "t", "r", "u", "c", "t", "o", "r">> }
          \X { [aspectRatio |-> a] : a \in AspectRatioInputs })

\* settlements of generateImages: a rejection, a response without images,
\* an image without data, an image with and without a MIME type
ImageReplies ==
  { [status |-> "rejected"],
    [status |-> "fulfilled"],
    [status |-> "fulfilled", generatedImages |-> << >>],
    [status |-> "fulfilled",
     generatedImages |-> << [mimeType |-> "image/png"] >>],
    [status |-> "fulfilled",
     generatedImages |-> << [imageBytes |-> 524288] >>],
    [status |-> "fulfilled",
     generatedImages |-> << [imageBytes |-> 1500000,
                             mimeType |-> "image/jpeg"] >>] }

\* options of generateVideo: no override, an aspect ratio or a duration that
\* is given or empty, and both given
VideoOptionInputs ==
  { EmptyObject, [aspectRatio |-> "1:1"], [aspectRatio |-> ""],
    [durationSeconds |-> 10], [durationSeconds |-> 0],
    [aspectRatio |-> "9:16", durationSeconds |-> 1000] }

\* the calls of validateForPlatform: every size with one duration, every
\* duration with one size, and a few of both together
PlatformVideoInputs ==
  (VideoSizeInputs \X {60}) \cup ({15} \X DurationInputs)
    \cup ({16, 4001} \X {2, 91, 901, 14461})

RegistryOps ==
  { "getPlatformSpec", "isPlatformSupported", "getOptimalAspectRatio",
    "getOptimalImageDimensions", "getOptimalVideoDimensions" }

(***************************************************************************)
(* One call: Init draws the operation and its arguments                    *)
(***************************************************************************)
NoMedia ==
  /\ width = 0 /\ height = 0 /\ fileSizeMB = 0 /\ durationSeconds = 0
  /\ format = << >>

Init ==
  /\ PLATFORM_SPECS = DeclaredPlatformSpecs
  /\ requests = << >>
  /\ invoked = << >>
  /\ reply = Pending
  /\ pc = "ready"
  /\ result = Pending
  /\ \/ /\ op = "getSupportedPlatforms"
        /\ platform = << >> /\ content = << >> /\ hashtags = << >>
        /\ NoMedia
        /\ request = EmptyObject
     \/ /\ op \in RegistryOps
        /\ platform \in PlatformInputs
        /\ content = << >> /\ hashtags = << >>
        /\ NoMedia
        /\ request = EmptyObject
     \/ /\ op = "validateTextContent"
        /\ platform \in PlatformInputs
        /\ content \in ContentInputs
        /\ hashtags = << >>
        /\ NoMedia
        /\ request = EmptyObject
     \/ /\ op = "validateHashtags"
        /\ platform \in PlatformInputs
        /\ content = << >>
        /\ hashtags \in HashtagInputs
        /\ NoMedia
        /\ request = EmptyObject
     \/ /\ op = "validatePost"
        /\ platform \in PlatformInputs
        /\ content \in PostContentInputs
        /\ hashtags \in PostHashtagInputs
        /\ NoMedia
        /\ request = EmptyObject
     \/ /\ op = "validateImage"
        /\ platform \in PlatformInputs
        /\ content = << >> /\ hashtags = << >>
        /\ \E i \in ImageInputs :
              /\ width = i[1][1] /\ height = i[1][2]
              /\ fileSizeMB = i[2]
              /\ format = i[3]
        /\ durationSeconds = 0
        /\ request = EmptyObject
     \/ /\ op = "validateVideo"
        /\ platform \in PlatformInputs
        /\ content = << >> /\ hashtags = << >>
        /\ \E i \in VideoInputs :
              /\ width = i[1][1] /\ height = i[1][2]
              /\ fileSizeMB = i[2][1] /\ durationSeconds = i[2][2]
              /\ format = i[3]
        /\ request = EmptyObject
     \/ /\ op = "POST validate-content"
        /\ request \in ValidateBodies \cup {Malformed}
        /\ IF request.parsed /\ request.platform = "string"
             THEN platform \in PlatformInputs ELSE platform = << >>
        /\ IF request.parsed /\ request.content = "string"
             THEN content \in RouteContentInputs ELSE content = << >>
        /\ IF request.parsed /\ request.hashtags = "array"
             THEN hashtags \in RouteHashtagInputs ELSE hashtags = << >>
        /\ NoMedia
     \/ /\ op = "POST generate-post"
        /\ request \in GenerateBodies \cup {Malformed}
        /\ IF request.parsed /\ request.platform = "string"
             THEN platform \in PlatformInputs ELSE platform = << >>
        /\ content = << >> /\ hashtags = << >>
        /\ NoMedia
     \/ /\ op = "validateAspectRatio"
        /\ request \in { [aspectRatio |-> a] : a \in AspectRatioInputs }
        /\ platform = << >> /\ content = << >> /\ hashtags = << >>
        /\ NoMedia
     \/ /\ op = "generateImage"
        /\ \E i \in GenerateImageInputs :
              platform = i[1] /\ request = i[2]
        /\ content = << >> /\ hashtags = << >>
        /\ NoMedia
     \/ /\ op = "generateVideo"
        /\ platform \in PlatformInputs
        /\ request \in VideoOptionInputs
        /\ content = << >> /\ hashtags = << >>
        /\ NoMedia
     \/ /\ op = "validateForPlatform"
        /\ platform \in PlatformInputs
        /\ \E i \in PlatformVideoInputs :
              fileSizeMB = i[1] /\ durationSeconds = i[2]
        /\ content = << >> /\ hashtags = << >>
        /\ width = 0 /\ height = 0 /\ format = << >>
        /\ request = EmptyObject

args == <<op, platform, content, hashtags, width, height, fileSizeMB,
          durationSeconds, format>>

\* a handler responds: the response is what the promise of POST resolves to
Respond(handled) ==
  /\ pc' = "done"
  /\ result' = Return(handled.response)
  /\ invoked' = invoked \o handled.invoked
  /\ UNCHANGED <<args, PLATFORM_SPECS, requests, request, reply>>

\* the call returns or throws: its outcome is stored and the arguments stay
Finish(outcome) ==
  /\ pc' = "done"
  /\ result' = outcome
  /\ UNCHANGED args
  /\ UNCHANGED <<PLATFORM_SPECS, requests, request, invoked, reply>>

Call_getPlatformSpec ==
  /\ pc = "ready" /\ op = "getPlatformSpec"
  /\ Finish(getPlatformSpec(platform))

Call_getSupportedPlatforms ==
  /\ pc = "ready" /\ op = "getSupportedPlatforms"
  /\ Finish(getSupportedPlatforms)

Call_isPlatformSupported ==
  /\ pc = "ready" /\ op = "isPlatformSupported"
  /\ Finish(isPlatformSupported(platform))

Call_getOptimalAspectRatio ==
  /\ pc = "ready" /\ op = "getOptimalAspectRatio"
  /\ Finish(getOptimalAspectRatio(platform))

Call_getOptimalImageDimensions ==
  /\ pc = "ready" /\ op = "getOptimalImageDimensions"
  /\ Finish(getOptimalImageDimensions(platform))

Call_getOptimalVideoDimensions ==
  /\ pc = "ready" /\ op = "getOptimalVideoDimensions"
  /\ Finish(getOptimalVideoDimensions(platform))

Call_validateTextContent ==
  /\ pc = "ready" /\ op = "validateTextContent"
  /\ Finish(validateTextContent(platform, content))

Call_validateHashtags ==
  /\ pc = "ready" /\ op = "validateHashtags"
  /\ Finish(validateHashtags(platform, hashtags))

Call_validateImage ==
  /\ pc = "ready" /\ op = "validateImage"
  /\ Finish(validateImage(platform, width, height, fileSizeMB, format))

Call_validateVideo ==
  /\ pc = "ready" /\ op = "validateVideo"
  /\ Finish(validateVideo(platform, width, height, durationSeconds,
                          fileSizeMB, format))

Call_validatePost ==
  /\ pc = "ready" /\ op = "validatePost"
  /\ Finish(validatePost(platform, content, hashtags))

Call_POST_validate_content ==
  /\ pc = "ready" /\ op = "POST validate-content"
  /\ Respond(POST_validate_content(request, platform, content, hashtags))

\* the handler runs up to its first await of the model, or responds
Call_POST_generate_post ==
  /\ pc = "ready" /\ op = "POST generate-post"
  /\ LET handled == POST_generate_post(request, platform)
     IN IF handled.responded
          THEN Respond(handled)
          ELSE /\ pc' = "awaiting"
               /\ invoked' = invoked \o handled.invoked
               /\ UNCHANGED <<args, result, PLATFORM_SPECS, requests,
                              request, reply>>

\* generateContent settles and the handler runs to its response
Resume_POST_generate_post ==
  /\ pc = "awaiting" /\ op = "POST generate-post"
  /\ \E answer \in ModelReplies, elapsed \in ElapsedInputs :
        /\ reply' = answer
        /\ result' = Return(POST_generate_post_resume(request, platform,
                                                      answer, elapsed))
  /\ pc' = "done"
  /\ UNCHANGED <<args, PLATFORM_SPECS, requests, request, invoked>>

Call_validateAspectRatio ==
  /\ pc = "ready" /\ op = "validateAspectRatio"
  /\ Finish(validateAspectRatio(Str(request.aspectRatio)))

\* generateImage runs up to its await of the image model, or returns the
\* failure result of its catch block
Call_generateImage ==
  /\ pc = "ready" /\ op = "generateImage"
  /\ LET handled == generateImage(request, platform)
     IN IF handled.responded
          THEN Respond(handled)
          ELSE /\ pc' = "awaiting"
               /\ invoked' = invoked \o handled.invoked
               /\ UNCHANGED <<args, result, PLATFORM_SPECS, requests,
                              request, reply>>

\* generateImages settles and generateImage runs to its result
Resume_generateImage ==
  /\ pc = "awaiting" /\ op = "generateImage"
  /\ \E answer \in ImageReplies, elapsed \in ElapsedInputs :
        /\ reply' = answer
        /\ result' = Return(generateImage_resume(invoked[Len(invoked)],
                                                 answer, elapsed))
  /\ pc' = "done"
  /\ UNCHANGED <<args, PLATFORM_SPECS, requests, request, invoked>>

Call_generateVideo ==
  /\ pc = "ready" /\ op = "generateVideo"
  /\ \E elapsed \in ElapsedInputs :
        Finish(Return(generateVideo(request, platform, elapsed)))

Call_validateForPlatform ==
  /\ pc = "ready" /\ op = "validateForPlatform"
  /\ Finish(validateForPlatform(fileSizeMB, durationSeconds, platform))

Next ==
  \/ Call_getPlatformSpec
  \/ Call_getSupportedPlatforms
  \/ Call_isPlatformSupported
  \/ Call_getOptimalAspectRatio
  \/ Call_getOptimalImageDimensions
  \/ Call_getOptimalVideoDimensions
  \/ Call_validateTextContent
  \/ Call_validateHashtags
  \/ Call_validateImage
  \/ Call_validateVideo
  \/ Call_validatePost
  \/ Call_POST_validate_content
  \/ Call_POST_generate_post
  \/ Resume_POST_generate_post
  \/ Call_validateAspectRatio
  \/ Call_generateImage
  \/ Resume_generateImage
  \/ Call_generateVideo
  \/ Call_validateForPlatform

Spec == Init /\ [][Next]_vars

(***************************************************************************)
(* Calls from several request contexts                                     *)
(*                                                                         *)
(* Route handlers are async functions on one event loop: a handler holds   *)
(* its parsed arguments while other handlers run, and each registry or     *)
(* validator call, being synchronous, runs to completion as one step.      *)
(***************************************************************************)
MaxContexts == 2

Contexts == 1..MaxContexts

\* a call with its arguments, as a context holds it
Call(o, p, c, tags, w, h, size, duration, f) ==
  [pc |-> "ready", op |-> o, platform |-> p, content |-> c, hashtags |-> tags,
   width |-> w, height |-> h, fileSizeMB |-> size,
   durationSeconds |-> duration, format |-> f, result |-> Pending]

Idle == [Call("", << >>, << >>, << >>, 0, 0, 0, 0, << >>) EXCEPT !.pc = "idle"]

RegistryCall(o, p) == Call(o, p, << >>, << >>, 0, 0, 0, 0, << >>)

\* the calls the contexts make
SharedCalls ==
  { RegistryCall("getSupportedPlatforms", << >>),
    RegistryCall("getPlatformSpec", instagram),
    RegistryCall("getPlatformSpec", <<"c", "o", "n", "s", "t", "r", "u", "c", "t", "o", "r">>),
    RegistryCall("isPlatformSupported", <<"T", "i", "k", "T", "o", "k">>),
    RegistryCall("getOptimalAspectRatio", tiktok),
    RegistryCall("getOptimalImageDimensions", linkedin),
    RegistryCall("getOptimalVideoDimensions", <<"_", "_", "p", "r", "o", "t", "o", "_", "_">>),
    Call("validateTextContent", twitter, << Run("A", 300) >>, << >>,
         0, 0, 0, 0, << >>),
    Call("validateTextContent", <<"m", "y", "s", "p", "a", "c", "e">>,
         << Run("A", 5) >>, << >>, 0, 0, 0, 0, << >>),
    Call("validateHashtags", instagram, << >>,
         << <<"#", "b">>, <<"#">>, <<"a">>, <<"#", "a", " ", "b">> >>,
         0, 0, 0, 0, << >>),
    Call("validateHashtags", twitter, << >>, << <<"b">>, <<"#", "a">> >>,
         0, 0, 0, 0, << >>),
    Call("validatePost", instagram, << Run("A", 2201) >>,
         << <<"#", "f">>, <<"e">>, <<"#", "d">>, <<"c">>, <<"b">>, <<"a">> >>,
         0, 0, 0, 0, << >>),
    Call("validateImage", facebook, << >>, << >>, 500, 500, 31, 0,
         <<"j", "p", "e", "g">>),
    Call("validateVideo", tiktok, << >>, << >>, 1280, 720, 51, 61,
         <<"m", "o", "v">>) }

\* the function a call names, applied to its arguments
Outcome(r) ==
  CASE r.op = "getPlatformSpec" -> getPlatformSpec(r.platform)
    [] r.op = "getSupportedPlatforms" -> getSupportedPlatforms
    [] r.op = "isPlatformSupported" -> isPlatformSupported(r.platform)
    [] r.op = "getOptimalAspectRatio" -> getOptimalAspectRatio(r.platform)
    [] r.op = "getOptimalImageDimensions" ->
         getOptimalImageDimensions(r.platform)
    [] r.op = "getOptimalVideoDimensions" ->
         getOptimalVideoDimensions(r.platform)
    [] r.op = "validateTextContent" ->
         validateTextContent(r.platform, r.content)
    [] r.op = "validateHashtags" -> validateHashtags(r.platform, r.hashtags)
    [] r.op = "validateImage" ->
         validateImage(r.platform, r.width, r.height, r.fileSizeMB, r.format)
    [] r.op = "validateVideo" ->
         validateVideo(r.platform, r.width, r.height, r.durationSeconds,
                       r.fileSizeMB, r.format)
    [] r.op = "validatePost" ->
         validatePost(r.platform, r.content, r.hashtags)

\* faulty variant of Completed: the hashtags are cleaned in the caller's array
Completed_CleansInPlace(r) ==
  [r EXCEPT !.pc = "done", !.result = Outcome(r),
            !.hashtags = [i \in 1..Len(r.hashtags) |-> cleanTag(r.hashtags[i])]]

\* the call has run: none of the functions assigns to its arguments, which
\* the context keeps, and the outcome is stored
Completed(r) == [r EXCEPT !.pc = "done", !.result = Outcome(r)]

SingleCallIdle ==
  /\ pc = "shared" /\ op = "" /\ platform = << >> /\ content = << >>
  /\ hashtags = << >> /\ NoMedia /\ result = Pending
  /\ request = EmptyObject /\ invoked = << >> /\ reply = Pending

SharedInit ==
  /\ PLATFORM_SPECS = DeclaredPlatformSpecs
  /\ requests = [c \in Contexts |-> Idle]
  /\ SingleCallIdle

\* a handler has parsed its request and is about to call
Accept(c) ==
  /\ requests[c].pc \in {"idle", "done"}
  /\ \E call \in SharedCalls : requests' = [requests EXCEPT ![c] = call]
  /\ UNCHANGED <<args, pc, result, PLATFORM_SPECS, request, invoked, reply>>

\* the call of context c runs to completion; no function assigns to
\* PLATFORM_SPECS or to a property of it
RunCall(c) ==
  /\ requests[c].pc = "ready"
  /\ requests' = [requests EXCEPT ![c] = Completed(requests[c])]
  /\ UNCHANGED <<args, pc, result, PLATFORM_SPECS, request, invoked, reply>>

SharedNext == \E c \in Contexts : Accept(c) \/ RunCall(c)

SharedSpec == SharedInit /\ [][SharedNext]_vars

(***************************************************************************)
(* Properties                                                              *)
(***************************************************************************)
RegisteredIdentifiers == {instagram, twitter, facebook, tiktok, linkedin}

Supported(p) == ToLowerCase(p) \in RegisteredIdentifiers

\* spec(p) of a supported platform
SpecOf(p) == Get(PLATFORM_SPECS, ToLowerCase(p))

Done(o) == pc = "done" /\ op = o

Returned(o) == Done(o) /\ result.status = "returned"

HasKind(msgs, kind) == \E i \in 1..Len(msgs) : msgs[i].kind = kind

\* a message list with the echoed text erased
Kinds(msgs) ==
  [i \in 1..Len(msgs) |->
     [kind |-> msgs[i].kind, name |-> msgs[i].name,
      a |-> msgs[i].a, b |-> msgs[i].b]]

\* C1: every result a validator returns has valid = TRUE exactly when its
\* errors list is empty, on supported and unsupported platforms alike.
C1_ValidIffNoErrors ==
  \A o \in {"validateTextContent", "validateHashtags", "validateImage",
            "validateVideo", "validatePost"} :
     Returned(o) => (result.value.valid <=> result.value.errors = << >>)

\* a post whose text passes and whose hashtag list alone is rejected
C1_Witness ==
  /\ Returned("validatePost")
  /\ Supported(platform)
  /\ RunsLength(content) <= SpecOf(platform).text.maxChars
  /\ result.value.errors # << >>
  /\ ~result.value.valid

\* C2: on every platform string whose lower-cased form is not a registered
\* identifier, validateTextContent, validateHashtags, validateImage and
\* validateVideo return, without throwing, exactly
\* {valid: false, errors: ["Unknown platform: <platform>"], warnings: [],
\* stats: {}}.
C2_UnknownPlatformShortCircuits ==
  \A o \in {"validateTextContent", "validateHashtags", "validateImage",
            "validateVideo"} :
     (Done(o) /\ ~Supported(platform)) =>
        result = Return([valid |-> FALSE,
                         errors |-> << Msg("Unknown platform", "",
                                           platform, 0, 0) >>,
                         warnings |-> << >>,
                         stats |-> EmptyObject])

\* C3: on every unknown platform validatePost returns, without throwing, a
\* result with valid = FALSE, no warnings, no stats and exactly one
\* "Unknown platform: <name>" error.
C3_PostUnknownPlatformSingleError ==
  (Done("validatePost") /\ ~Supported(platform)) =>
     /\ result.status = "returned"
     /\ result.value.valid = FALSE
     /\ result.value.warnings = << >>
     /\ result.value.stats = EmptyObject
     /\ result.value.errors
          = << Msg("Unknown platform", "", platform, 0, 0) >>

\* the PlatformSpec registered under an identifier
RegisteredSpec(key) ==
  PLATFORM_SPECS[CHOOSE i \in 1..Len(PLATFORM_SPECS) :
                   PLATFORM_SPECS[i].key = key].value

\* C4: getPlatformSpec never throws, returns the spec registered under the
\* lower-cased argument when that is a registered identifier and null for
\* every other string, and agrees on strings that differ only in case.
C4_GetPlatformSpecTotal ==
  Done("getPlatformSpec") =>
     /\ result.status = "returned"
     /\ Supported(platform) =>
          result.value = RegisteredSpec(ToLowerCase(platform))
     /\ ~Supported(platform) => result.value = Null
     /\ \A t \in PlatformInputs :
          ToLowerCase(t) = ToLowerCase(platform) =>
             getPlatformSpec(t) = result

\* C5: isPlatformSupported(s) is TRUE exactly when the lower-cased s is an
\* element of getSupportedPlatforms(), and exactly when getPlatformSpec(s)
\* is not null.
C5_IsPlatformSupportedMembership ==
  Done("isPlatformSupported") =>
     /\ result.status = "returned"
     /\ result.value
          <=> ArrayIncludes(getSupportedPlatforms.value, ToLowerCase(platform))
     /\ result.value <=> getPlatformSpec(platform).value # Null

\* C6: on a supported platform validateTextContent reports an error exactly
\* when the content is longer than maxChars (a content of exactly maxChars
\* characters passes), never more than one error, and stats
\* {charCount, charLimit}; and validatePost rejects every post whose content
\* is longer than maxChars, whatever its hashtags.
C6_TextLimit ==
  /\ (Done("validateTextContent") /\ Supported(platform)) =>
        LET n == RunsLength(content)
            max == SpecOf(platform).text.maxChars
        IN /\ result.status = "returned"
           /\ result.value.errors # << >> <=> n > max
           /\ Len(result.value.errors) <= 1
           /\ result.value.valid <=> n <= max
           /\ result.value.stats = [charCount |-> n, charLimit |-> max]
  /\ (Done("validatePost") /\ Supported(platform)
        /\ RunsLength(content) > SpecOf(platform).text.maxChars) =>
        /\ result.status = "returned"
        /\ result.value.valid = FALSE

\* a content one character over the limit is rejected with a single error
C6_Witness ==
  /\ Returned("validateTextContent")
  /\ Supported(platform)
  /\ RunsLength(content) = SpecOf(platform).text.maxChars + 1
  /\ Len(result.value.errors) = 1
  /\ ~result.value.valid

\* C7: validatePost combines the results of validateTextContent and
\* validateHashtags on the same arguments: valid is the conjunction, errors
\* and warnings are the text ones followed by the hashtag ones, and stats is
\* the union of both stats (the four counters on a supported platform); it
\* ends without a result only when one of the two calls does.
C7_PostIsComposition ==
  Done("validatePost") =>
     LET t == validateTextContent(platform, content)
         h == validateHashtags(platform, hashtags)
     IN IF t.status = "threw" \/ h.status = "threw"
          THEN result.status = "threw"
          ELSE /\ result.status = "returned"
               /\ result.value.valid = (t.value.valid /\ h.value.valid)
               /\ result.value.errors = t.value.errors \o h.value.errors
               /\ result.value.warnings
                    = t.value.warnings \o h.value.warnings
               /\ DOMAIN result.value.stats
                    = DOMAIN t.value.stats \cup DOMAIN h.value.stats
               /\ \A k \in DOMAIN t.value.stats :
                    result.value.stats[k] = t.value.stats[k]
               /\ \A k \in DOMAIN h.value.stats :
                    result.value.stats[k] = h.value.stats[k]
               /\ Supported(platform) =>
                    result.value.stats
                      = [charCount |-> RunsLength(content),
                         charLimit |-> SpecOf(platform).text.maxChars,
                         hashtagCount |-> Len(hashtags),
                         hashtagLimit |-> SpecOf(platform).hashtags.max]

\* a post that breaks the text limit and a hashtag rule at once, with a text
\* warning and a hashtag warning
C7_Witness ==
  /\ Returned("validatePost")
  /\ Supported(platform)
  /\ Len(result.value.errors) >= 2
  /\ result.value.errors[1].kind = "Content exceeds character limit"
  /\ result.value.errors[2].kind # "Content exceeds character limit"
  /\ Len(result.value.warnings) >= 2
  /\ result.value.warnings[1].kind = "Content exceeds optimal length"
  /\ result.value.warnings[2].kind = "More hashtags than recommended"

\* C8: on a supported platform validateHashtags reports the count error
\* exactly when the list is longer than hashtags.max and the recommended-
\* count warning exactly when it is longer than hashtags.recommended, so a
\* list longer than max gets both; stats is {hashtagCount, hashtagLimit}.
C8_HashtagCount ==
  (Done("validateHashtags") /\ Supported(platform)) =>
     LET n == Len(hashtags)
         limits == SpecOf(platform).hashtags
     IN /\ result.status = "returned"
        /\ HasKind(result.value.errors, "Too many hashtags")
             <=> n > limits.max
        /\ HasKind(result.value.warnings, "More hashtags than recommended")
             <=> n > limits.recommended
        /\ n > limits.max =>
             /\ HasKind(result.value.errors, "Too many hashtags")
             /\ HasKind(result.value.warnings,
                        "More hashtags than recommended")
        /\ result.value.stats
             = [hashtagCount |-> n, hashtagLimit |-> limits.max]

\* a list one longer than max: the error and the warning together
C8_Witness ==
  /\ Returned("validateHashtags")
  /\ Supported(platform)
  /\ Len(hashtags) = SpecOf(platform).hashtags.max + 1
  /\ HasKind(result.value.errors, "Too many hashtags")
  /\ HasKind(result.value.warnings, "More hashtags than recommended")

StartsWithHash(tag) == Len(tag) > 0 /\ tag[1] = "#"

\* the list with '#' prepended to the tags at the positions in S
Prefixed(tags, S) ==
  [i \in 1..Len(tags) |-> IF i \in S THEN <<"#">> \o tags[i] ELSE tags[i]]

\* the position sets tried on a list of n tags: every subset of the last
\* MaxTail positions, with none or all of the positions before them
PositionSets(n) ==
  LET first == IF n > MaxTail THEN n - MaxTail + 1 ELSE 1
  IN { S \cup E : S \in SUBSET (first..n), E \in { {}, 1..(first - 1) } }

\* C9: on a supported platform, prepending '#' to any of the tags of a list
\* in which no tag starts with '#' changes neither valid nor stats nor the
\* errors and warnings, apart from the tag text echoed in the messages.
C9_LeadingHashInvariance ==
  (Returned("validateHashtags") /\ Supported(platform)
     /\ \A i \in 1..Len(hashtags) : ~StartsWithHash(hashtags[i])) =>
     \A S \in PositionSets(Len(hashtags)) :
        LET r == validateHashtags(platform, Prefixed(hashtags, S))
        IN /\ r.status = "returned"
           /\ r.value.valid = result.value.valid
           /\ Kinds(r.value.errors) = Kinds(result.value.errors)
           /\ Kinds(r.value.warnings) = Kinds(result.value.warnings)
           /\ r.value.stats = result.value.stats

\* a list without '#' holding an empty tag, a tag with a space or a long tag
C9_Witness ==
  /\ Returned("validateHashtags")
  /\ Supported(platform)
  /\ Len(hashtags) >= 2
  /\ \A i \in 1..Len(hashtags) : ~StartsWithHash(hashtags[i])
  /\ HasKind(result.value.errors, "Hashtag is empty")
  /\ \/ HasKind(result.value.errors, "Hashtag contains spaces")
     \/ HasKind(result.value.warnings, "Hashtag is very long")

\* a tag with at most one leading '#' removed
Stripped(tag) == IF StartsWithHash(tag) THEN Tail(tag) ELSE tag

\* the messages of msgs whose kind is in kinds, in order
OfKinds(msgs, kinds) ==
  LET keep == {i \in 1..Len(msgs) : msgs[i].kind \in kinds}
      nth(k) == CHOOSE i \in keep : Cardinality({j \in keep : j <= i}) = k
  IN [k \in 1..Cardinality(keep) |-> msgs[nth(k)]]

\* the number of elements of S up to i
Rank(S, i) == Cardinality({j \in S : j <= i})

\* C10: on a supported platform the per-tag messages of validateHashtags
\* follow the input order: each tag that is empty once a single leading '#'
\* is removed gives "Hashtag <i> is empty" with its 1-based position, each
\* stripped tag with a space gives an error echoing the tag, each stripped
\* tag of more than 30 characters gives a warning and no error (30 gives
\* nothing); the count error comes before the per-tag errors and the
\* recommended-count warning before the per-tag warnings.
C10_PerHashtagChecks ==
  (Done("validateHashtags") /\ Supported(platform)) =>
     LET n == Len(hashtags)
         empty == {i \in 1..n : Stripped(hashtags[i]) = << >>}
         spaced == {i \in 1..n : Includes(Stripped(hashtags[i]), " ")}
         long == {i \in 1..n : Len(Stripped(hashtags[i])) > 30}
         errors == result.value.errors
         warnings == result.value.warnings
         tagErrors == OfKinds(errors, {"Hashtag is empty",
                                       "Hashtag contains spaces"})
         tagWarnings == OfKinds(warnings, {"Hashtag is very long"})
     IN /\ result.status = "returned"
        /\ \A k \in 1..Len(errors) :
             errors[k].kind \in {"Too many hashtags", "Hashtag is empty",
                                 "Hashtag contains spaces"}
        /\ \A k \in 1..Len(errors) :
             errors[k].kind = "Too many hashtags" => k = 1
        /\ \A k \in 1..Len(warnings) :
             warnings[k].kind = "More hashtags than recommended" => k = 1
        /\ Len(tagErrors) = Cardinality(empty \cup spaced)
        /\ \A i \in empty :
             tagErrors[Rank(empty \cup spaced, i)]
               = Msg("Hashtag is empty", "", << >>, i, 0)
        /\ \A i \in spaced :
             tagErrors[Rank(empty \cup spaced, i)]
               = Msg("Hashtag contains spaces", "", hashtags[i], 0, 0)
        /\ Len(tagWarnings) = Cardinality(long)
        /\ \A i \in long :
             tagWarnings[Rank(long, i)]
               = Msg("Hashtag is very long", "", hashtags[i],
                     Len(Stripped(hashtags[i])), 0)

\* a list over the limit whose tail is an empty tag, reported under its
\* position, and a tag of 31 characters
C10_Witness ==
  /\ Returned("validateHashtags")
  /\ Supported(platform)
  /\ Len(result.value.errors) = 2
  /\ result.value.errors[1].kind = "Too many hashtags"
  /\ result.value.errors[2].kind = "Hashtag is empty"
  /\ result.value.errors[2].a = Len(hashtags) - 1
  /\ Len(result.value.warnings) = 2
  /\ result.value.warnings[2].kind = "Hashtag is very long"
  /\ result.value.warnings[2].a = 31

\* C11: on a supported platform an empty hashtag list is valid with no
\* errors, with the no-hashtags warning as its only warning when the
\* platform, lower-cased, is instagram, tiktok or twitter and with no warning
\* on facebook and linkedin; a non-empty list never gets that warning.
C11_NoHashtagsWarning ==
  (Done("validateHashtags") /\ Supported(platform)) =>
     /\ result.status = "returned"
     /\ hashtags = << >> =>
          /\ result.value.valid
          /\ result.value.errors = << >>
          /\ IF ToLowerCase(platform) \in {instagram, tiktok, twitter}
               THEN Kinds(result.value.warnings)
                      = << [kind |-> "No hashtags provided",
                            name |-> SpecOf(platform).name,
                            a |-> 0, b |-> 0] >>
               ELSE result.value.warnings = << >>
     /\ hashtags # << >> =>
          ~HasKind(result.value.warnings, "No hashtags provided")

\* the warning on a platform name that is not written in lower case
C11_Witness ==
  /\ Returned("validateHashtags")
  /\ Supported(platform)
  /\ platform # ToLowerCase(platform)
  /\ hashtags = << >>
  /\ Len(result.value.warnings) = 1
  /\ result.value.warnings[1].kind = "No hashtags provided"

\* C12: on a supported platform the warnings of validateTextContent are the
\* sweet-spot warning, exactly when the platform has a sweetSpot and the
\* content is longer than it (never on twitter or tiktok), followed by the
\* very-short warning, exactly when the content has 1 to 9 characters; empty
\* content gets no warning and no error, and valid depends on the character
\* limit alone.
C12_TextWarnings ==
  (Done("validateTextContent") /\ Supported(platform)) =>
     LET n == RunsLength(content)
         text == SpecOf(platform).text
         sweet == "sweetSpot" \in DOMAIN text /\ n > text.sweetSpot
         short == 0 < n /\ n < 10
         kinds == [i \in 1..Len(result.value.warnings) |->
                     result.value.warnings[i].kind]
     IN /\ result.status = "returned"
        /\ kinds = (IF sweet THEN << "Content exceeds optimal length" >>
                             ELSE << >>)
                   \o (IF short THEN << "Content is very short" >>
                                ELSE << >>)
        /\ ToLowerCase(platform) \in {twitter, tiktok} => ~sweet
        /\ n = 0 => result.value.warnings = << >>
                    /\ result.value.errors = << >>
        /\ result.value.valid <=> n <= text.maxChars

\* a content past the sweet spot and within the limit: valid, one warning
C12_Witness ==
  /\ Returned("validateTextContent")
  /\ Supported(platform)
  /\ RunsLength(content) <= SpecOf(platform).text.maxChars
  /\ Len(result.value.warnings) = 1
  /\ result.value.warnings[1].kind = "Content exceeds optimal length"
  /\ result.value.valid

\* the kinds of a message list
KindsOnly(msgs) == [i \in 1..Len(msgs) |-> msgs[i].kind]

If(cond, kind) == IF cond THEN << kind >> ELSE << >>

\* an image format token is accepted: upper-cased, and JPEG read as JPG, it
\* is one of the platform's formats
ImageFormatAccepted(spec, f) ==
  LET upper == ToUpperCase(f)
      token == IF upper = JPEG THEN JPG ELSE upper
  IN \E i \in 1..Len(spec.images.formats) : spec.images.formats[i] = token

\* C13: on a supported platform every hard rule is checked whatever failed
\* before it: the errors of validateImage are the format and the size error,
\* those of validateVideo the format, size and duration error, each present
\* exactly when its rule is violated and in that order; validateHashtags
\* reports the count error plus one error per empty tag and per tag with a
\* space; validatePost reports the text-limit error, first, plus all hashtag
\* errors.
C13_ErrorsExhaustive ==
  /\ (Done("validateImage") /\ Supported(platform)) =>
        LET spec == SpecOf(platform)
        IN /\ result.status = "returned"
           /\ KindsOnly(result.value.errors)
                = If(~ImageFormatAccepted(spec, format),
                     "Invalid image format")
                  \o If(fileSizeMB > spec.images.maxSizeMB,
                        "Image size exceeds limit")
  /\ (Done("validateVideo") /\ Supported(platform)) =>
        LET spec == SpecOf(platform)
        IN /\ result.status = "returned"
           /\ KindsOnly(result.value.errors)
                = If(\A i \in 1..Len(spec.videos.formats) :
                        spec.videos.formats[i] # ToUpperCase(format),
                     "Invalid video format")
                  \o If(fileSizeMB > spec.videos.maxSizeMB,
                        "Video size exceeds limit")
                  \o If(durationSeconds > spec.videos.maxDurationSeconds,
                        "Video duration exceeds limit")
  /\ (Done("validateHashtags") /\ Supported(platform)) =>
        LET n == Len(hashtags)
            bad == {i \in 1..n : \/ Stripped(hashtags[i]) = << >>
                                 \/ Includes(Stripped(hashtags[i]), " ")}
            over == IF n > SpecOf(platform).hashtags.max THEN 1 ELSE 0
        IN /\ result.status = "returned"
           /\ Len(result.value.errors) = over + Cardinality(bad)
  /\ (Done("validatePost") /\ Supported(platform)) =>
        LET n == Len(hashtags)
            bad == {i \in 1..n : \/ Stripped(hashtags[i]) = << >>
                                 \/ Includes(Stripped(hashtags[i]), " ")}
            over == IF n > SpecOf(platform).hashtags.max THEN 1 ELSE 0
            long == RunsLength(content) > SpecOf(platform).text.maxChars
        IN /\ result.status = "returned"
           /\ Len(result.value.errors)
                = (IF long THEN 1 ELSE 0) + over + Cardinality(bad)
           /\ long => result.value.errors[1].kind
                        = "Content exceeds character limit"
           /\ (long /\ over = 1) =>
                 result.value.errors[2].kind = "Too many hashtags"

\* a video that breaks the format, the size and the duration rule at once
C13_Witness ==
  /\ Returned("validateVideo")
  /\ Supported(platform)
  /\ KindsOnly(result.value.errors)
       = << "Invalid video format", "Video size exceeds limit",
            "Video duration exceeds limit" >>

\* C14: on a supported platform validateImage reports a format error exactly
\* when the upper-cased format, with JPEG read as JPG, is none of the
\* platform's image formats: every case variant of JPG and JPEG is accepted
\* everywhere, GIF on twitter only, and nothing but a case variant of JPG,
\* JPEG, PNG or GIF is accepted anywhere.
C14_ImageFormatRule ==
  (Done("validateImage") /\ Supported(platform)) =>
     LET spec == SpecOf(platform)
         upper == ToUpperCase(format)
         rejected == HasKind(result.value.errors, "Invalid image format")
     IN /\ result.status = "returned"
        /\ rejected <=> ~ImageFormatAccepted(spec, format)
        /\ upper \in {JPG, JPEG} => ~rejected
        /\ upper = GIF => (~rejected <=> ToLowerCase(platform) = twitter)
        /\ ~rejected => upper \in {JPG, JPEG, PNG, GIF}

\* a mixed-case JPEG accepted
C14_Witness ==
  /\ Returned("validateImage")
  /\ Supported(platform)
  /\ format # ToUpperCase(format)
  /\ ToUpperCase(format) = JPEG
  /\ ~HasKind(result.value.errors, "Invalid image format")

\* |w/h - dw/dh| compared with 0.05 = 1/20 over the rationals, h, dh > 0
Distance(w, h, dw, dh) ==
  LET d == w * dh - dw * h
  IN IF d < 0 THEN 0 - d ELSE d

StrictlyWithin(w, h, dimensions) ==
  \E i \in 1..Len(dimensions) :
     20 * Distance(w, h, dimensions[i].width, dimensions[i].height)
       < h * dimensions[i].height

OnBoundary(w, h, dimensions) ==
  \E i \in 1..Len(dimensions) :
     20 * Distance(w, h, dimensions[i].width, dimensions[i].height)
       = h * dimensions[i].height

MediaCall == Done("validateImage") \/ Done("validateVideo")

AspectWarning ==
  IF op = "validateImage"
    THEN "Image aspect ratio does not match"
    ELSE "Video aspect ratio does not match"

MediaDimensions ==
  IF op = "validateImage"
    THEN SpecOf(platform).images.dimensions
    ELSE SpecOf(platform).videos.dimensions

\* C15: for a supported platform and positive width and height, validateImage
\* and validateVideo give no aspect-ratio warning exactly when some entry of
\* the platform's dimensions list has a ratio strictly less than 0.05 away
\* from width / height (exactly 0.05 away does not match); a mismatch gives
\* exactly one warning and no error.
C15_AspectRatioTolerance ==
  (MediaCall /\ Supported(platform) /\ width > 0 /\ height > 0) =>
     LET aspect == {i \in 1..Len(result.value.warnings) :
                      result.value.warnings[i].kind = AspectWarning}
     IN /\ result.status = "returned"
        /\ aspect = {} <=> StrictlyWithin(width, height, MediaDimensions)
        /\ Cardinality(aspect) <= 1
        /\ ~HasKind(result.value.errors, AspectWarning)

\* whenever no recommended ratio is exactly 0.05 away, the doubles of the code
\* and the rationals agree
AspectRatioAgreesOffBoundary ==
  (MediaCall /\ Supported(platform) /\ width > 0 /\ height > 0
     /\ ~OnBoundary(width, height, MediaDimensions)) =>
     (HasKind(result.value.warnings, AspectWarning)
        <=> ~StrictlyWithin(width, height, MediaDimensions))

Count(msgs, kind) == Cardinality({i \in 1..Len(msgs) : msgs[i].kind = kind})

\* C16: on a supported platform validateImage gives the small-width warning
\* exactly when the width is less than half the least width of the platform's
\* image dimensions (exactly half gives none), once, and as a warning only:
\* an image with an accepted format and size is valid; instagram 500x500 JPG
\* 1MB is valid with the small-width warning alone.
C16_SmallWidthWarning ==
  (Done("validateImage") /\ Supported(platform)) =>
     LET spec == SpecOf(platform)
         dims == spec.images.dimensions
         small == \A i \in 1..Len(dims) : 2 * width < dims[i].width
     IN /\ result.status = "returned"
        /\ Count(result.value.warnings, "Image width is quite small")
             = IF small THEN 1 ELSE 0
        /\ ~HasKind(result.value.errors, "Image width is quite small")
        /\ (ImageFormatAccepted(spec, format)
              /\ fileSizeMB <= spec.images.maxSizeMB) => result.value.valid
        /\ (ToLowerCase(platform) = instagram /\ width = 500 /\ height = 500
              /\ fileSizeMB = 1 /\ format = JPG) =>
              /\ result.value.valid
              /\ KindsOnly(result.value.warnings)
                   = << "Image width is quite small" >>

\* the instagram 500x500 JPG 1MB image
C16_Witness ==
  /\ Returned("validateImage")
  /\ ToLowerCase(platform) = instagram
  /\ width = 500 /\ height = 500 /\ fileSizeMB = 1 /\ format = JPG
  /\ result.value.valid
  /\ HasKind(result.value.warnings, "Image width is quite small")

\* C17: on a supported platform the result of validateVideo is valid exactly
\* when the upper-cased format is one of the platform's video formats, the size
\* is at most the maximum size and the duration at most the maximum duration
\* (values at a limit pass); stats carries width, height, durationSeconds,
\* maxDurationSeconds, fileSizeMB and maxSizeMB.
C17_VideoHardRules ==
  (Done("validateVideo") /\ Supported(platform)) =>
     LET spec == SpecOf(platform)
         member == \E i \in 1..Len(spec.videos.formats) :
                      spec.videos.formats[i] = ToUpperCase(format)
     IN /\ result.status = "returned"
        /\ result.value.valid
             <=> /\ member
                 /\ fileSizeMB <= spec.videos.maxSizeMB
                 /\ durationSeconds <= spec.videos.maxDurationSeconds
        /\ result.value.stats
             = [width |-> width, height |-> height,
                durationSeconds |-> durationSeconds,
                maxDurationSeconds |-> spec.videos.maxDurationSeconds,
                fileSizeMB |-> fileSizeMB,
                maxSizeMB |-> spec.videos.maxSizeMB]

\* a valid video with size and duration exactly at the limits, its format in
\* lower case
C17_Witness ==
  /\ Returned("validateVideo")
  /\ Supported(platform)
  /\ fileSizeMB = SpecOf(platform).videos.maxSizeMB
  /\ durationSeconds = SpecOf(platform).videos.maxDurationSeconds
  /\ format # ToUpperCase(format)
  /\ result.value.valid

\* C18: on a supported platform validateVideo gives the very-short warning
\* exactly when the duration is under 3 seconds, the Reels warning exactly when
\* the platform is instagram in any letter case and the duration over 90, the
\* engagement warning exactly when the platform is tiktok and the duration
\* over 60; an instagram video of 90 < duration <= 900 and a tiktok video of
\* 60 < duration <= 3600 with an accepted format and size is valid, with the
\* warning and without a duration error.
C18_VideoSoftWarnings ==
  (Done("validateVideo") /\ Supported(platform)) =>
     LET spec == SpecOf(platform)
         lower == ToLowerCase(platform)
         warnings == result.value.warnings
         accepted == /\ \E i \in 1..Len(spec.videos.formats) :
                          spec.videos.formats[i] = ToUpperCase(format)
                     /\ fileSizeMB <= spec.videos.maxSizeMB
     IN /\ result.status = "returned"
        /\ Count(warnings, "Video is very short")
             = IF durationSeconds < 3 THEN 1 ELSE 0
        /\ Count(warnings, "Video is longer than 90 seconds")
             = IF lower = instagram /\ durationSeconds > 90 THEN 1 ELSE 0
        /\ Count(warnings, "Video is longer than 60 seconds")
             = IF lower = tiktok /\ durationSeconds > 60 THEN 1 ELSE 0
        /\ \A i \in 1..Len(warnings) :
              warnings[i].kind \in {"Video is very short",
                                    "Video aspect ratio does not match",
                                    "Video is longer than 90 seconds",
                                    "Video is longer than 60 seconds"}
        /\ (accepted /\ lower = instagram
              /\ durationSeconds > 90 /\ durationSeconds <= 900) =>
              /\ result.value.valid
              /\ HasKind(warnings, "Video is longer than 90 seconds")
              /\ result.value.errors = << >>
        /\ (accepted /\ lower = tiktok
              /\ durationSeconds > 60 /\ durationSeconds <= 3600) =>
              /\ result.value.valid
              /\ HasKind(warnings, "Video is longer than 60 seconds")
              /\ result.value.errors = << >>

\* a valid video on INSTAGRAM with the Reels warning
C18_Witness ==
  /\ Returned("validateVideo")
  /\ ToLowerCase(platform) = instagram
  /\ platform # instagram
  /\ durationSeconds > 90 /\ durationSeconds <= 900
  /\ result.value.valid
  /\ HasKind(result.value.warnings, "Video is longer than 90 seconds")

\* C19: for every string, getOptimalImageDimensions returns the first image
\* dimension and getOptimalVideoDimensions the first video dimension of the
\* platform's spec, getOptimalAspectRatio the aspectRatio of the former; each
\* returns null when the platform is unknown, and only then, and none throws;
\* getOptimalAspectRatio("tiktok") is "9:16".
C19_OptimalLookups ==
  /\ Done("getOptimalImageDimensions") =>
       /\ result.status = "returned"
       /\ Supported(platform) =>
            result.value = SpecOf(platform).images.dimensions[1]
       /\ ~Supported(platform) => result.value = Null
  /\ Done("getOptimalVideoDimensions") =>
       /\ result.status = "returned"
       /\ Supported(platform) =>
            result.value = SpecOf(platform).videos.dimensions[1]
       /\ ~Supported(platform) => result.value = Null
  /\ Done("getOptimalAspectRatio") =>
       /\ result.status = "returned"
       /\ Supported(platform) =>
            result.value = SpecOf(platform).images.dimensions[1].aspectRatio
       /\ ~Supported(platform) => result.value = Null
       /\ platform = tiktok => result.value = "9:16"

\* the lookups on the registered identifiers and on strings that name no
\* property of Object.prototype behave as C19 says
OptimalLookupsOffPrototype ==
  (pc = "done" /\ ToLowerCase(platform) \notin ObjectPrototypeKeys
     /\ op \in {"getOptimalImageDimensions", "getOptimalVideoDimensions",
                "getOptimalAspectRatio"}) =>
     /\ result.status = "returned"
     /\ ~Supported(platform) => result.value = Null
     /\ Supported(platform) =>
          result.value
            = CASE op = "getOptimalImageDimensions" ->
                     SpecOf(platform).images.dimensions[1]
                [] op = "getOptimalVideoDimensions" ->
                     SpecOf(platform).videos.dimensions[1]
                [] OTHER -> SpecOf(platform).images.dimensions[1].aspectRatio
     /\ (op = "getOptimalAspectRatio" /\ platform = tiktok) =>
          result.value = "9:16"

\* C20: getSupportedPlatforms returns the five identifiers in the order of
\* their declaration, all lower case and without duplicates, and
\* getPlatformSpec of each is not null.
C20_SupportedPlatformsList ==
  Done("getSupportedPlatforms") =>
     /\ result.status = "returned"
     /\ result.value = << instagram, twitter, facebook, tiktok, linkedin >>
     /\ \A i \in 1..Len(result.value) :
          /\ result.value[i] = ToLowerCase(result.value[i])
          /\ \A j \in 1..Len(result.value) :
               result.value[i] = result.value[j] => i = j
          /\ getPlatformSpec(result.value[i]).status = "returned"
          /\ getPlatformSpec(result.value[i]).value # Null

\* the call has returned a list of five
C20_Witness ==
  /\ Returned("getSupportedPlatforms")
  /\ Len(result.value) = 5
  /\ result.value[1] = instagram

\* the data invariants of one platform spec
WellFormedSpec(spec) ==
  /\ spec.hashtags.recommended <= spec.hashtags.max
  /\ "sweetSpot" \in DOMAIN spec.text =>
        spec.text.sweetSpot <= spec.text.maxChars
  /\ spec.text.maxChars > 0
  /\ spec.images.dimensions # << >>
  /\ spec.videos.dimensions # << >>
  /\ \A i \in 1..Len(spec.images.dimensions) :
        spec.images.dimensions[i].width > 0
          /\ spec.images.dimensions[i].height > 0
  /\ \A i \in 1..Len(spec.videos.dimensions) :
        spec.videos.dimensions[i].width > 0
          /\ spec.videos.dimensions[i].height > 0
  /\ spec.images.maxSizeMB > 0
  /\ spec.videos.maxSizeMB > 0
  /\ spec.videos.maxDurationSeconds > 0

\* C21: each of the five platform specs of the registry, and so each spec that
\* getPlatformSpec returns for a supported platform, has recommended <= max
\* hashtags, sweetSpot <= maxChars when a sweetSpot is defined, maxChars > 0,
\* non-empty image and video dimension lists with positive widths and
\* heights, and positive maxSizeMB and maxDurationSeconds.
C21_RegistryDataInvariants ==
  /\ Len(PLATFORM_SPECS) = 5
  /\ \A i \in 1..Len(PLATFORM_SPECS) : WellFormedSpec(PLATFORM_SPECS[i].value)
  /\ (Done("getPlatformSpec") /\ Supported(platform)) =>
        /\ result.status = "returned"
        /\ WellFormedSpec(result.value)

\* a spec with a sweetSpot has been returned
C21_Witness ==
  /\ Returned("getPlatformSpec")
  /\ Supported(platform)
  /\ "sweetSpot" \in DOMAIN result.value.text

\* the arguments a context passed
Arguments(r) ==
  <<r.op, r.platform, r.content, r.hashtags, r.width, r.height, r.fileSizeMB,
    r.durationSeconds, r.format>>

ValidateFieldsGiven ==
  request.platform = "string" /\ platform # << >> /\ request.content = "string"

\* what the endpoint must answer a parsed body with
ValidateContentAnswer ==
  LET expected == validatePost(platform, content,
                               IF request.hashtags = "array"
                                 THEN hashtags ELSE << >>)
  IN /\ ValidateFieldsGiven =>
          /\ result.value.status = 200
          /\ expected.status = "returned"
          /\ result.value.body = expected.value
          /\ invoked = << "validatePost" >>
          /\ ~Supported(platform) =>
                /\ ~result.value.body.valid
                /\ HasKind(result.value.body.errors, "Unknown platform")
     /\ ~ValidateFieldsGiven =>
          /\ result.value.status = 400
          /\ invoked = << >>

\* C23: the validate-content endpoint answers every body that has a non-empty
\* platform and a string content (the empty string included) with status 200
\* and the result of validatePost(platform, content, hashtags or []), valid
\* or not, an unknown platform giving valid = FALSE with an "Unknown platform"
\* error; a body without platform or with a content that is no string is
\* answered with status 400 and validatePost is not called.
C23_ValidateContentEndpoint ==
  (Done("POST validate-content") /\ request.parsed) => ValidateContentAnswer

\* the endpoint answers as C23 says whenever the lower-cased platform names no
\* property of Object.prototype
ValidateContentOffPrototype ==
  (Done("POST validate-content") /\ request.parsed
     /\ ToLowerCase(platform) \notin ObjectPrototypeKeys) =>
     ValidateContentAnswer

(***************************************************************************)
(* The generate-post route                                                 *)
(***************************************************************************)
\* a successful response of /api/generate-post
GeneratedOk ==
  /\ Done("POST generate-post")
  /\ result.value.status = 200

\* the list of hashtags the model gave; none when the property is missing
ModelHashtags ==
  IF Has(reply.post, "hashtags") THEN reply.post.hashtags ELSE << >>

\* C24: in every successful generate-post response for platform p the
\* returned hashtags are at most spec(p).hashtags.max, they are the first
\* max elements of the model's list in their order, they are the model's
\* list unchanged when it is within the limit, and validateHashtags of the
\* returned list reports no "Too many hashtags" error
C24_HashtagTruncation ==
  GeneratedOk =>
    LET max == SpecOf(platform).hashtags.max
        returned == result.value.body.post.hashtags
        checked == validateHashtags(platform, returned)
    IN /\ Len(returned) <= max
       /\ \A i \in 1..max :
            i <= Len(ModelHashtags) =>
              i <= Len(returned) /\ returned[i] = ModelHashtags[i]
       /\ Len(returned) <= Len(ModelHashtags)
       /\ Len(ModelHashtags) <= max => returned = ModelHashtags
       /\ checked.status = "returned"
       /\ ~HasKind(checked.value.errors, "Too many hashtags")

\* a response for instagram whose six generated hashtags were cut to five
C24_Witness ==
  /\ GeneratedOk
  /\ ToLowerCase(platform) = instagram
  /\ Len(ModelHashtags) = 6
  /\ result.value.body.post.hashtags = SubSeq(ModelHashtags, 1, 5)

\* C27: a successful generate-post response holds the generated post at
\* the top level of its body: content, hashtags, and a metadata object
\* with model, tokensUsed.total, cost and generationTime
C27_TopLevelPost ==
  GeneratedOk =>
    LET body == result.value.body
    IN /\ Has(body, "content")
       /\ Has(body, "hashtags")
       /\ Has(body, "metadata")
       /\ Has(body.metadata, "model")
       /\ Has(body.metadata, "tokensUsed")
       /\ Has(body.metadata.tokensUsed, "total")
       /\ Has(body.metadata, "cost")
       /\ Has(body.metadata, "generationTime")

\* what the route returns instead: the post nested under post, the token
\* counts and the cost (a string of six decimals) under usage, the time as
\* generationTimeMs, and no model name
NestedPostShape ==
  GeneratedOk =>
    LET body == result.value.body
    IN /\ DOMAIN body = {"platform", "post", "usage", "generationTimeMs"}
       /\ {"content", "hashtags", "metadata"} \subseteq DOMAIN body.post
       /\ DOMAIN body.post \subseteq
            {"content", "hashtags", "metadata", "imagePrompt", "videoPrompt"}
       /\ DOMAIN body.post.metadata =
            {"estimatedEngagement", "contentType", "characterCount"}
       /\ DOMAIN body.usage =
            {"totalTokens", "promptTokens", "completionTokens",
             "estimatedCostUSD"}
       /\ Len(body.usage.estimatedCostUSD) = 6
       /\ body.usage.totalTokens =
            body.usage.promptTokens + body.usage.completionTokens

\* the text model was called
ModelCalled ==
  \E i \in 1..Len(invoked) : invoked[i].callee = "generateContent"

\* the request passes the required-field check: platform, postType and
\* topic are given and not empty
GenerateFieldsGiven ==
  /\ request.parsed
  /\ request.platform = "string" /\ platform # << >>
  /\ request.postType \notin {"undefined", ""}
  /\ request.topic \notin {"undefined", ""}

\* the route handler, not a validator, is what runs
GenerateRoute == op = "POST generate-post"

\* C29: in the generate-post route the text model is called only for a
\* request that passed the required-field check and whose platform is in
\* the registry; a parsed request failing either check is answered with
\* status 400 and no model call; and no request that reached the model
\* call is answered with the failure of building the system prompt
C29_GeneratePostOrdering ==
  GenerateRoute =>
    /\ ModelCalled => GenerateFieldsGiven /\ Supported(platform)
    /\ (pc = "done" /\ request.parsed
        /\ ~(GenerateFieldsGiven /\ Supported(platform))) =>
          /\ result.value.status = 400
          /\ ~ModelCalled
    /\ ModelCalled => getSystemPrompt(platform).status = "returned"

\* what holds of every request: the model is called only after both checks
\* passed and the prompt was built, and a request that fails the required-
\* field check, or whose platform name is no property of the registry
\* object at all, is answered with 400 and no model call
OrderingOffPrototype ==
  GenerateRoute =>
    /\ ModelCalled =>
         /\ GenerateFieldsGiven /\ Supported(platform)
         /\ getSystemPrompt(platform).status = "returned"
         /\ request.project
    /\ (pc = "done" /\ request.parsed
        /\ ~(GenerateFieldsGiven /\ Supported(platform))) =>
          /\ ~ModelCalled
          /\ (~GenerateFieldsGiven
              \/ ToLowerCase(platform) \notin ObjectPrototypeKeys) =>
                result.value.status = 400
          /\ (GenerateFieldsGiven
              /\ ToLowerCase(platform) \in ObjectPrototypeKeys) =>
                /\ result.value.status = 500
                /\ result.value.body.details = "TypeError"

(***************************************************************************)
(* The media services                                                      *)
(***************************************************************************)
\* generateImage was called without an aspectRatio override and has passed
\* its computation of the aspect ratio
ImageDefaultUsed ==
  /\ op = "generateImage" /\ pc # "ready"
  /\ ~(Has(request, "aspectRatio") /\ request.aspectRatio # << >>)

\* the aspect ratio generateImage gave to the image model
UsedImageRatio == invoked[1].aspectRatio

\* C25: when generateImage is called without an aspectRatio override on a
\* supported platform p, the aspect ratio used is getOptimalAspectRatio(p),
\* the aspect ratio of the first image dimension of the registry
C25_ImageDefaultFromRegistry ==
  (ImageDefaultUsed /\ Supported(platform)) =>
    /\ Len(invoked) = 1
    /\ UsedImageRatio = Str(Chars(getOptimalAspectRatio(platform).value))

\* what the service uses instead: the ratio of its own table, which is the
\* registry's for twitter and tiktok only
ImageDefaultFromServiceTable ==
  (ImageDefaultUsed /\ Supported(platform)) =>
    /\ Len(invoked) = 1
    /\ UsedImageRatio =
         Str(Chars(CASE ToLowerCase(platform) = instagram -> "3:4"
                     [] ToLowerCase(platform) = tiktok -> "9:16"
                     [] OTHER -> "16:9"))
    /\ UsedImageRatio = Str(Chars(getOptimalAspectRatio(platform).value))
         <=> ToLowerCase(platform) \in {twitter, tiktok}

\* C26: when generateVideo is called without an aspectRatio override on a
\* supported platform p, the aspect ratio used is
\* getOptimalVideoDimensions(p).aspectRatio, and the duration used without
\* a durationSeconds override is at most spec(p).videos.maxDurationSeconds
C26_VideoDefaultFromRegistry ==
  (Done("generateVideo") /\ Supported(platform)) =>
    LET metadata == result.value.metadata
    IN /\ ~(Has(request, "aspectRatio") /\ request.aspectRatio # "") =>
            metadata.dimensions =
              getOptimalVideoDimensions(platform).value.aspectRatio
       /\ ~(Has(request, "durationSeconds") /\ request.durationSeconds # 0) =>
            metadata.durationSeconds
              <= SpecOf(platform).videos.maxDurationSeconds

\* what holds: the default duration is within the platform's limit, and the
\* default aspect ratio is the registry's on every platform but facebook,
\* where the service uses 9:16 and the registry's first dimension is 16:9
VideoDefaultsOffFacebook ==
  (Done("generateVideo") /\ Supported(platform)) =>
    LET metadata == result.value.metadata
    IN /\ ~(Has(request, "aspectRatio") /\ request.aspectRatio # "") =>
            IF ToLowerCase(platform) = facebook
              THEN /\ metadata.dimensions = "9:16"
                   /\ getOptimalVideoDimensions(platform).value.aspectRatio
                        = "16:9"
              ELSE metadata.dimensions =
                     getOptimalVideoDimensions(platform).value.aspectRatio
       /\ ~(Has(request, "durationSeconds") /\ request.durationSeconds # 0) =>
            metadata.durationSeconds
              <= SpecOf(platform).videos.maxDurationSeconds

\* the five ratios Imagen supports
SupportedRatios ==
  { Chars("1:1"), Chars("3:4"), Chars("4:3"), Chars("9:16"), Chars("16:9") }

\* the ratio the claim gives for a string
ExpectedRatio(s) ==
  LET trimmed == Trim(s)
  IN IF trimmed \in SupportedRatios THEN trimmed
     ELSE IF trimmed \in {Chars("4:5"), Chars("2:3")} THEN Chars("3:4")
     ELSE IF trimmed \in {Chars("5:4"), Chars("3:2")} THEN Chars("4:3")
     ELSE IF trimmed = Chars("21:9") THEN Chars("16:9")
     ELSE Chars("1:1")

\* every call of the image model was given a supported ratio
ImageModelGivenSupportedRatio ==
  \A i \in 1..Len(invoked) :
    /\ invoked[i].aspectRatio.type = "string"
    /\ invoked[i].aspectRatio.chars \in SupportedRatios

\* C28: validateAspectRatio returns one of the five supported ratios for
\* every string (the trimmed string when it is supported, 3:4 for 4:5 and
\* 2:3, 4:3 for 5:4 and 3:2, 16:9 for 21:9, else 1:1) and is idempotent;
\* and the aspect ratio generateImage gives to the image model is always a
\* supported one
C28_SupportedAspectRatio ==
  /\ Done("validateAspectRatio") =>
       /\ result = Return(Str(ExpectedRatio(request.aspectRatio)))
       /\ validateAspectRatio(result.value) = result
  /\ op = "generateImage" => ImageModelGivenSupportedRatio

\* what holds: the same, for every string that after trimming is not the
\* name of a property of Object.prototype; for such a name the inherited
\* value is returned and given to the image model
AspectRatioOffPrototype ==
  /\ Done("validateAspectRatio") =>
       IF Trim(request.aspectRatio) \in ObjectPrototypeKeys
         THEN result = Return(Inherited(Trim(request.aspectRatio)))
         ELSE /\ result = Return(Str(ExpectedRatio(request.aspectRatio)))
              /\ validateAspectRatio(result.value) = result
  /\ (op = "generateImage" /\ Len(invoked) > 0) =>
       IF Has(request, "aspectRatio")
          /\ Trim(request.aspectRatio) \in ObjectPrototypeKeys
         THEN UsedImageRatio = Inherited(Trim(request.aspectRatio))
         ELSE ImageModelGivenSupportedRatio

\* the outcome is the single error "Unknown platform: <name>"
IsUnknownPlatform(outcome, p) ==
  /\ outcome.status = "returned"
  /\ ~outcome.value.valid
  /\ outcome.value.errors = << Msg("Unknown platform", "", p, 0, 0) >>

\* the size and duration errors of a list, in their order
LimitErrors(msgs) ==
  LET rule(kind) ==
        IF kind \in {"Video size exceeds limit",
                     "Video size exceeds platform limit"} THEN << "size" >>
        ELSE IF kind \in {"Video duration exceeds limit",
                          "Video duration exceeds platform limit"}
          THEN << "duration" >>
        ELSE << >>
      RECURSIVE rules(_)
      rules(i) == IF i > Len(msgs) THEN << >>
                  ELSE rule(msgs[i].kind) \o rules(i + 1)
  IN rules(1)

\* C30: validateForPlatform returns the single Unknown-platform error
\* exactly when validateVideo does; on a supported platform it reports the
\* size error and the duration error exactly when validateVideo does, in
\* the same order, and for an accepted format its valid flag is
\* validateVideo's
C30_PlatformVideoAgreement ==
  Done("validateForPlatform") =>
    \A f \in VideoFormatInputs :
      LET video == validateVideo(platform, 1080, 1920, durationSeconds,
                                 fileSizeMB, f)
      IN /\ IsUnknownPlatform(result, platform)
              <=> IsUnknownPlatform(video, platform)
         /\ Supported(platform) =>
              /\ result.status = "returned" /\ video.status = "returned"
              /\ LimitErrors(result.value.errors)
                   = LimitErrors(video.value.errors)
              /\ Len(result.value.errors)
                   = Len(LimitErrors(result.value.errors))
              /\ ArrayIncludes(SpecOf(platform).videos.formats, ToUpperCase(f))
                   => result.value.valid = video.value.valid

\* a video on instagram that is both too large and too long: both report
\* the size error and then the duration error
C30_Witness ==
  /\ Done("validateForPlatform")
  /\ ToLowerCase(platform) = instagram
  /\ fileSizeMB = 16 /\ durationSeconds = 901
  /\ LimitErrors(result.value.errors) = << "size", "duration" >>
  /\ ~result.value.valid

====
